---- MODULE Spec2Model ----
(***************************************************************************)
(* Lobby orchestration of the game server: the master process supervises  *)
(* a fixed pool of worker processes (Master.ts), MasterLobbyService        *)
(* aggregates the public lobbies the workers report and schedules new      *)
(* ones, WorkerLobbyService answers on the worker side and relays the      *)
(* aggregate to the lobby web sockets of its viewers.                      *)
(***************************************************************************)
EXTENDS Integers, Sequences, FiniteSets, TLC

\* ------------------------------------------------------------- sizes
\* config.numWorkers() of the pool the behaviours below run
NumWorkers == 2
\* config.numWorkers() of the three-worker scenario
ScenarioWorkers == 3
\* config.numWorkers() of the pool whose loops run for ever
LiveWorkers == 1
\* config.gameCreationRate(), in clock units
GameCreationRate == 2
\* the standing inventory of maybeScheduleLobby: "lobbies.length >= 2"
LobbyThreshold == 2

\* how many worker processes may exit in one run
MaxRestarts == 1
\* broadcasts in a row that are counted as not sent to one worker
MaxFailedSends == 2
\* how many worker processes may exit while the pool becomes ready
MaxCrashes == 2
\* capacity of one direction of one IPC channel
MaxQueue == 1
\* generateID() draws from MaxGameIDs identifiers
MaxGameIDs == 2
\* scheduling ticks in one run; the clock counts scheduling intervals
MaxTime == 2
\* scheduling ticks in one run of a pool whose workers do not exit
MaxTicks == 3
\* structurally invalid payloads fed to each side
MaxInvalid == 1
\* lobby web sockets that may connect to a worker
MaxViewers == 2
\* refreshes of the privilege checker in one run
MaxLoads == 3
\* calls of PrivilegeRefresher.get in one run
MaxGets == 2
\* length of the usernames that are censored
MaxNameLen == 6
\* WebSocket objects one PublicLobbySocket creates in one run
MaxSockets == 4
\* calls of "new WebSocket" that throw in one run
MaxThrows == 1
\* calls of PublicLobbySocket.start in one run
MaxStarts == 2
\* "options?.maxWsAttempts ?? 3"
maxWsAttempts == 3

\* config.numWorkers(), read once when the master starts and fixed afterwards
VARIABLE numWorkers

WorkerIds == 0 .. (numWorkers - 1)
Handles == 1 .. (numWorkers + MaxRestarts)
GameIDs == 0 .. (MaxGameIDs - 1)
Conns == 1 .. MaxViewers

\* ------------------------------------------------------------- data
\* PublicGameInfo as sendMyLobbiesToMaster builds it (gameConfig is opaque)
PublicGameInfo(gameID, numClients, startsAt) ==
    [gameID |-> gameID, numClients |-> numClients, startsAt |-> startsAt]

\* JSON payloads on the IPC channel.  A payload keeps, next to each field
\* the schemas look at, the JSON type the field has on the wire.
WorkerReady(workerId) ==
    [type |-> "workerReady", tWorkerId |-> "number", workerId |-> workerId,
     tLobbies |-> "undefined", lobbies |-> <<>>]

WorkerLobbyList(lobbies) ==
    [type |-> "lobbyList", tWorkerId |-> "undefined", workerId |-> 0,
     tLobbies |-> "array", lobbies |-> lobbies]

NoPublicGames == [serverTime |-> 0, games |-> <<>>]

MasterLobbiesBroadcast(publicGames) ==
    [type |-> "lobbiesBroadcast", tPublicGames |-> "object",
     publicGames |-> publicGames,
     tGameID |-> "undefined", gameID |-> 0, tGameConfig |-> "undefined",
     tStartsAt |-> "undefined", startsAt |-> 0]

MasterCreateGame(gameID, startsAt) ==
    [type |-> "createGame", tPublicGames |-> "undefined",
     publicGames |-> NoPublicGames,
     tGameID |-> "string", gameID |-> gameID, tGameConfig |-> "object",
     tStartsAt |-> "number", startsAt |-> startsAt]

\* WorkerMessageSchema.safeParse: a discriminated union on "type" of
\* WorkerLobbyListSchema and WorkerReadySchema
WorkerMessageSchema(raw) ==
    IF raw.type = "lobbyList"
    THEN raw.tLobbies = "array"
    ELSE IF raw.type = "workerReady"
         THEN raw.tWorkerId = "number"
         ELSE FALSE

\* MasterMessageSchema.safeParse: a discriminated union on "type" of
\* MasterLobbiesBroadcastSchema and MasterCreateGameSchema
MasterMessageSchema(raw) ==
    IF raw.type = "lobbiesBroadcast"
    THEN raw.tPublicGames = "object"
    ELSE IF raw.type = "createGame"
         THEN /\ raw.tGameID = "string"
              /\ raw.tGameConfig = "object"
              /\ raw.tStartsAt = "number"
         ELSE FALSE

\* payloads that are no WorkerMessage
InvalidWorkerPayloads ==
    { [type |-> "bogus", tWorkerId |-> "number", workerId |-> 0,
       tLobbies |-> "undefined", lobbies |-> <<>>],
      [type |-> "undefined", tWorkerId |-> "number", workerId |-> 1,
       tLobbies |-> "array", lobbies |-> <<>>],
      [type |-> "workerReady", tWorkerId |-> "string", workerId |-> 1,
       tLobbies |-> "undefined", lobbies |-> <<>>],
      [type |-> "workerReady", tWorkerId |-> "undefined", workerId |-> 0,
       tLobbies |-> "undefined", lobbies |-> <<>>],
      [type |-> "lobbyList", tWorkerId |-> "undefined", workerId |-> 0,
       tLobbies |-> "string",
       lobbies |-> << PublicGameInfo(0, 0, 0) >>],
      [type |-> "createGame", tWorkerId |-> "undefined", workerId |-> 0,
       tLobbies |-> "undefined", lobbies |-> <<>>] }

\* payloads that are no MasterMessage
InvalidMasterPayloads ==
    { [type |-> "bogus", tPublicGames |-> "object",
       publicGames |-> [serverTime |-> 1, games |-> <<>>],
       tGameID |-> "string", gameID |-> 0, tGameConfig |-> "object",
       tStartsAt |-> "number", startsAt |-> 1],
      [type |-> "undefined", tPublicGames |-> "undefined",
       publicGames |-> NoPublicGames,
       tGameID |-> "string", gameID |-> 1, tGameConfig |-> "object",
       tStartsAt |-> "number", startsAt |-> 1],
      [type |-> "createGame", tPublicGames |-> "undefined",
       publicGames |-> NoPublicGames,
       tGameID |-> "number", gameID |-> 0, tGameConfig |-> "object",
       tStartsAt |-> "number", startsAt |-> 1],
      [type |-> "createGame", tPublicGames |-> "undefined",
       publicGames |-> NoPublicGames,
       tGameID |-> "string", gameID |-> 1, tGameConfig |-> "object",
       tStartsAt |-> "string", startsAt |-> 1],
      [type |-> "createGame", tPublicGames |-> "undefined",
       publicGames |-> NoPublicGames,
       tGameID |-> "string", gameID |-> 0, tGameConfig |-> "undefined",
       tStartsAt |-> "number", startsAt |-> 1],
      [type |-> "lobbiesBroadcast", tPublicGames |-> "undefined",
       publicGames |-> [serverTime |-> 1, games |-> <<>>],
       tGameID |-> "undefined", gameID |-> 0, tGameConfig |-> "undefined",
       tStartsAt |-> "undefined", startsAt |-> 0],
      [type |-> "workerReady", tPublicGames |-> "undefined",
       publicGames |-> NoPublicGames,
       tGameID |-> "undefined", gameID |-> 0, tGameConfig |-> "undefined",
       tStartsAt |-> "undefined", startsAt |-> 0] }

\* config.workerIndex(gameID): a hash of the identifier modulo numWorkers
workerIndex(gameID) == gameID % numWorkers

\* ------------------------------------------------------------- sequences
RECURSIVE Flat(_)
\* Array.prototype.flat over the values of workerLobbies, in insertion order
Flat(entries) ==
    IF entries = <<>> THEN <<>>
    ELSE Head(entries).lobbies \o Flat(Tail(entries))

RECURSIVE InsertByStartsAt(_, _)
\* puts x behind every element that does not start later (a stable sort step)
InsertByStartsAt(x, sorted) ==
    IF sorted = <<>> THEN << x >>
    ELSE IF Head(sorted).startsAt - x.startsAt <= 0
         THEN << Head(sorted) >> \o InsertByStartsAt(x, Tail(sorted))
         ELSE << x >> \o sorted

RECURSIVE SortByStartsAt(_)
\* Array.prototype.sort((a, b) => a.startsAt - b.startsAt), which is stable
SortByStartsAt(s) ==
    IF s = <<>> THEN <<>>
    ELSE InsertByStartsAt(s[Len(s)], SortByStartsAt(SubSeq(s, 1, Len(s) - 1)))

RECURSIVE MaxStartsAt(_, _)
\* lobbies.reduce((max, pb) => Math.max(max, pb.startsAt), init)
MaxStartsAt(lobbies, init) ==
    IF lobbies = <<>> THEN init
    ELSE MaxStartsAt(Tail(lobbies),
                     IF Head(lobbies).startsAt > init
                     THEN Head(lobbies).startsAt ELSE init)

Range(s) == { s[i] : i \in 1 .. Len(s) }

RECURSIVE SelectIdx(_, _)
\* the entries s[i] of a sequence with keep[i], in order
SelectIdx(s, keep) ==
    IF s = <<>> THEN <<>>
    ELSE (IF keep[1] THEN << Head(s) >> ELSE <<>>)
         \o SelectIdx(Tail(s), [i \in 1 .. (Len(s) - 1) |-> keep[i + 1]])

\* ------------------------------------------------------------- Map
\* Map<number, PublicGameInfo[]> : entries in insertion order
MapHas(m, k) == \E i \in 1 .. Len(m) : m[i].id = k

MapDelete(m, k) == SelectIdx(m, [i \in 1 .. Len(m) |-> m[i].id # k])

\* Map.set keeps the place of a key that is present and appends a new key
MapSet(m, k, v) ==
    IF MapHas(m, k)
    THEN [i \in 1 .. Len(m) |-> IF m[i].id = k
                                THEN [id |-> k, lobbies |-> v] ELSE m[i]]
    ELSE Append(m, [id |-> k, lobbies |-> v])

\* ------------------------------------------------------------- state
VARIABLES
    booted,         \* startMaster has forked and registered the pool
    workers,        \* MasterLobbyService.workers: worker id -> process handle
    listeners,      \* handle -> the workerId its "message" listener closes over
    workerLobbies,  \* MasterLobbyService.workerLobbies, in insertion order
    readyWorkers,   \* MasterLobbyService.readyWorkers
    started,        \* MasterLobbyService.started
    polling,        \* polling loops started, per loop
    sched,          \* the invocation of maybeScheduleLobby in flight
    now,            \* Date.now()
    proc,           \* handle -> the worker process behind it
    toWorker,       \* handle -> payloads sent by the master, not yet received
    toMaster,       \* handle -> payloads sent by the worker, not yet received
    lobbyClients,   \* handle -> WorkerLobbyService.lobbyClients
    socket,         \* lobby web socket -> readyState and last frame received
    readySignals,   \* history: id -> workerReady payloads the master has handled
    reports,        \* history: id -> last lobbyList of the handle registered now
    lastTick,       \* history: what the last scheduling tick found and did,
                    \* and the handle its worker id had when it began
    invalidSeen,    \* history: invalid payloads handled, per side
    casts,          \* history: broadcast ticks so far, modulo 2
    failedSends     \* history: id -> broadcasts in a row not sent to its handle

\* what runs beside the lobby services
VARIABLES
    refresher,      \* the PrivilegeRefresher of a worker, with its history
    censor,         \* a call of censorUsername: its argument and its result
    lobbySocket     \* the PublicLobbySocket of a client, its WebSocket
                    \* objects and timers, with its history

peripheryVars == << refresher, censor, lobbySocket >>

masterVars == << workers, listeners, workerLobbies, readyWorkers, started, polling >>

\* the state of the master and its pool
clusterVars == << numWorkers, booted, workers, listeners, workerLobbies,
                 readyWorkers, started, polling, sched, now, proc, toWorker,
                 toMaster, lobbyClients, socket, readySignals, reports,
                 lastTick, invalidSeen, casts, failedSends >>

workerVars == << proc, lobbyClients, socket >>

histVars == << readySignals, reports, lastTick, invalidSeen, casts, failedSends >>

vars == << numWorkers, peripheryVars, booted, workers, listeners, workerLobbies, readyWorkers, started,
           polling, sched, now, proc, toWorker, toMaster, lobbyClients,
           socket, readySignals, reports, lastTick, invalidSeen, casts, failedSends >>

NoProc == [state |-> "unborn", id |-> 0, readySent |-> FALSE, games |-> <<>>]

NoSocket == [owner |-> 0, readyState |-> "NONE", received |-> NoPublicGames]

\* no payload of the master is waiting for a worker.  A worker handles a
\* payload before the master's event loop runs its next callback: the runs
\* left out differ from one kept only in the moment the worker handles it
Quiet == \A h \in Handles : toWorker[h] = << >>

IdleSched == [pc |-> "idle", lastStart |-> 0, gameID |-> 0, workerId |-> 0]

NoReport == [has |-> FALSE, lobbies |-> << >>]

NoTick == [phase |-> "none", inventory |-> 0, fetched |-> FALSE, cmds |-> 0,
           to |-> 0, gameID |-> 0, startsAt |-> 0, registered |-> 0]

\* "private privilegeChecker: PrivilegeChecker | null = null"
NullChecker == [kind |-> "null", load |-> 0, bannedWords |-> "none"]

\* new FailOpenPrivilegeChecker()
FailOpenPrivilegeChecker == [kind |-> "failOpen", load |-> 0, bannedWords |-> "none"]

\* new PrivilegeCheckerImpl(result.data, base64url.decode, bannedWords): the
\* checker built by the load-th successful load
PrivilegeCheckerImpl(load, bannedWords) ==
    [kind |-> "impl", load |-> load, bannedWords |-> bannedWords]

\* new PrivilegeRefresher(...): no checker loaded, no loop started
NewRefresher ==
    [privilegeChecker |-> NullChecker,
     failOpenPrivilegeChecker |-> FailOpenPrivilegeChecker,
     polling |-> 0, pc |-> "idle",
     attempts |-> 0, loads |-> 0, gets |-> 0, got |-> NullChecker]

\* no call of censorUsername has been made
NoCensor == [username |-> << >>, result |-> << >>, done |-> FALSE]

\* a WebSocket object that has not been created; counted and opened are
\* history: how often its close was counted as an attempt, and whether it
\* has been open
NoWebSocket == [readyState |-> "NONE", counted |-> 0, opened |-> FALSE]

\* new PublicLobbySocket(onLobbiesUpdate): no socket, no timer, no attempt.
\* sockets are the WebSocket objects created so far, timers the timeouts that
\* are set and neither cleared nor fired, starting the calls of start() that
\* wait for the configuration; history: throws, starts, stopped (stop() was
\* called and start() has not been called since), unopened (connections in
\* a row that closed without having been open)
NewLobbySocket ==
    [ws |-> 0, wsReconnectTimeout |-> 0,
     wsConnectionAttempts |-> 0, wsAttemptCounted |-> FALSE,
     sockets |-> [i \in 1 .. MaxSockets |-> NoWebSocket],
     timers |-> {}, timersSet |-> 0, starting |-> 0,
     throws |-> 0, starts |-> 0, stopped |-> FALSE, unopened |-> 0]

\* what runs beside the lobby services, as constructed
InitPeriphery ==
    /\ refresher = NewRefresher
    /\ censor = NoCensor
    /\ lobbySocket = NewLobbySocket

\* the state after "new MasterLobbyService(config, playlist, log)" under a
\* configuration of n workers
InitCluster(n) ==
    /\ numWorkers = n
    /\ booted = FALSE
    /\ workers = << >>
    /\ listeners = << >>
    /\ workerLobbies = << >>
    /\ readyWorkers = {}
    /\ started = FALSE
    /\ polling = [broadcast |-> 0, schedule |-> 0]
    /\ sched = IdleSched
    /\ now = 0
    /\ proc = [h \in Handles |-> NoProc]
    /\ toWorker = [h \in Handles |-> << >>]
    /\ toMaster = [h \in Handles |-> << >>]
    /\ lobbyClients = [h \in Handles |-> {}]
    /\ socket = [c \in Conns |-> NoSocket]
    /\ readySignals = [k \in WorkerIds |-> 0]
    /\ reports = [k \in WorkerIds |-> NoReport]
    /\ lastTick = NoTick
    /\ invalidSeen = [master |-> 0, worker |-> 0]
    /\ casts = 0
    /\ failedSends = [k \in WorkerIds |-> 0]

InitPool(n) == InitCluster(n) /\ InitPeriphery

Init == InitPool(NumWorkers)

\* the coordinator's maps as one value, for handlers that call one another
Coordinator ==
    [workers |-> workers, listeners |-> listeners,
     workerLobbies |-> workerLobbies, readyWorkers |-> readyWorkers,
     started |-> started]

\* Map<number, Worker>.set
WorkersSet(m, k, h) == [i \in (DOMAIN m) \cup {k} |-> IF i = k THEN h ELSE m[i]]

\* Map<number, Worker>.delete
WorkersDelete(m, k) == [i \in (DOMAIN m) \ {k} |-> m[i]]

\* MasterLobbyService.registerWorker: stores the handle and attaches the
\* "message" listener, which closes over workerId
registerWorker(workerId, worker, st) ==
    [st EXCEPT !.workers = WorkersSet(st.workers, workerId, worker),
               !.listeners = WorkersSet(st.listeners, worker, workerId)]

\* removeWorker as it would be if a removal also reset the start flag
removeWorker_ResetsStarted(workerId, st) ==
    [st EXCEPT !.workers = WorkersDelete(st.workers, workerId),
               !.workerLobbies = MapDelete(st.workerLobbies, workerId),
               !.readyWorkers = st.readyWorkers \ {workerId},
               !.started = FALSE]

\* MasterLobbyService.removeWorker
removeWorker(workerId, st) ==
    [st EXCEPT !.workers = WorkersDelete(st.workers, workerId),
               !.workerLobbies = MapDelete(st.workerLobbies, workerId),
               !.readyWorkers = st.readyWorkers \ {workerId}]

\* cluster.fork({WORKER_ID: id, ...}): the process behind a new handle
Forked(id) == [state |-> "running", id |-> id, readySent |-> FALSE, games |-> <<>>]

RECURSIVE ForkPool(_, _)
\* the fork loop of startMaster: for (i = 0; i < numWorkers; i++)
ForkPool(i, st) ==
    IF i >= numWorkers THEN st
    ELSE ForkPool(i + 1, registerWorker(i, i + 1, st))

\* startMaster, from "new MasterLobbyService" to the end of the fork loop
StartMaster ==
    /\ ~booted
    /\ booted' = TRUE
    /\ LET st == ForkPool(0, Coordinator)
       IN /\ workers' = st.workers
          /\ listeners' = st.listeners
          /\ workerLobbies' = st.workerLobbies
          /\ readyWorkers' = st.readyWorkers
          /\ started' = st.started
    /\ proc' = [h \in Handles |-> IF h <= numWorkers THEN Forked(h - 1) ELSE proc[h]]
    /\ UNCHANGED << numWorkers, peripheryVars, polling, sched, now, toWorker, toMaster,
                    lobbyClients, socket, histVars >>

\* handleWorkerReady as it would be without the "&& !this.started" guard
handleWorkerReady_NoStartedGuard(workerId) ==
    /\ readyWorkers' = readyWorkers \cup {workerId}
    /\ IF Cardinality(readyWorkers \cup {workerId}) = numWorkers
       THEN /\ started' = TRUE
            /\ polling' = [broadcast |-> polling.broadcast + 1,
                           schedule |-> polling.schedule + 1]
       ELSE UNCHANGED << started, polling >>
    /\ UNCHANGED workerLobbies

\* handleWorkerReady as it would be if the loops were started by the first
\* workerReady instead of the last
handleWorkerReady_StartsAtFirstReady(workerId) ==
    /\ readyWorkers' = readyWorkers \cup {workerId}
    /\ IF ~started
       THEN /\ started' = TRUE
            /\ polling' = [broadcast |-> polling.broadcast + 1,
                           schedule |-> polling.schedule + 1]
       ELSE UNCHANGED << started, polling >>
    /\ UNCHANGED workerLobbies

\* handleWorkerReady as it would be if the size of the ready-set were
\* compared before the worker is added to it
handleWorkerReady_ChecksBeforeAdd(workerId) ==
    /\ readyWorkers' = readyWorkers \cup {workerId}
    /\ IF Cardinality(readyWorkers) = numWorkers /\ ~started
       THEN /\ started' = TRUE
            /\ polling' = [broadcast |-> polling.broadcast + 1,
                           schedule |-> polling.schedule + 1]
       ELSE UNCHANGED << started, polling >>
    /\ UNCHANGED workerLobbies

\* MasterLobbyService.handleWorkerReady
handleWorkerReady(workerId) ==
    /\ readyWorkers' = readyWorkers \cup {workerId}
    /\ IF Cardinality(readyWorkers \cup {workerId}) = numWorkers /\ ~started
       THEN /\ started' = TRUE
            /\ polling' = [broadcast |-> polling.broadcast + 1,
                           schedule |-> polling.schedule + 1]
       ELSE UNCHANGED << started, polling >>
    /\ UNCHANGED workerLobbies

\* the listener as it would be if it used the payload without safeParse
OnWorkerMessage_NoValidation(h, raw) ==
    IF raw.type = "workerReady"
    THEN handleWorkerReady(raw.workerId)
    ELSE IF raw.type = "lobbyList"
         THEN /\ workerLobbies' = MapSet(workerLobbies, listeners[h], raw.lobbies)
              /\ UNCHANGED << readyWorkers, started, polling >>
         ELSE UNCHANGED << workerLobbies, readyWorkers, started, polling >>

\* the listener as it would be if a lobbyList were added to what the worker
\* had reported before instead of replacing it
OnWorkerMessage_AppendsReport(h, raw) ==
    IF ~WorkerMessageSchema(raw)
    THEN UNCHANGED << workerLobbies, readyWorkers, started, polling >>
    ELSE IF raw.type = "workerReady"
         THEN handleWorkerReady(raw.workerId)
         ELSE LET before == Flat(SelectIdx(workerLobbies,
                               [i \in 1 .. Len(workerLobbies) |->
                                   workerLobbies[i].id = listeners[h]]))
              IN /\ workerLobbies' = MapSet(workerLobbies, listeners[h],
                                            before \o raw.lobbies)
                 /\ UNCHANGED << readyWorkers, started, polling >>

\* the "message" listener registerWorker attaches to a handle
OnWorkerMessage(h, raw) ==
    IF ~WorkerMessageSchema(raw)
    THEN UNCHANGED << workerLobbies, readyWorkers, started, polling >>
    ELSE IF raw.type = "workerReady"
         THEN handleWorkerReady(raw.workerId)
         ELSE /\ workerLobbies' = MapSet(workerLobbies, listeners[h], raw.lobbies)
              /\ UNCHANGED << readyWorkers, started, polling >>

\* a payload of a worker reaches the master's listener on that handle
MasterReceive(h) ==
    /\ Quiet
    /\ booted
    /\ h \in DOMAIN listeners
    /\ toMaster[h] # << >>
    /\ toMaster' = [toMaster EXCEPT ![h] = Tail(@)]
    /\ OnWorkerMessage(h, Head(toMaster[h]))
    /\ readySignals' = IF WorkerMessageSchema(Head(toMaster[h]))
                          /\ Head(toMaster[h]).type = "workerReady"
                       THEN [readySignals EXCEPT ![Head(toMaster[h]).workerId] = @ + 1]
                       ELSE readySignals
    /\ reports' = IF /\ WorkerMessageSchema(Head(toMaster[h]))
                     /\ Head(toMaster[h]).type = "lobbyList"
                     /\ listeners[h] \in DOMAIN workers
                     /\ workers[listeners[h]] = h
                  THEN [reports EXCEPT ![listeners[h]] =
                           [has |-> TRUE, lobbies |-> Head(toMaster[h]).lobbies]]
                  ELSE reports
    /\ UNCHANGED << numWorkers, peripheryVars, booted, workers, listeners, sched, now, toWorker,
                    workerVars, lastTick, invalidSeen, casts, failedSends >>

\* a payload that is no WorkerMessage reaches the listener
MasterReceiveInvalid(h, raw) ==
    /\ Quiet
    /\ booted
    /\ h \in DOMAIN listeners
    /\ invalidSeen.master < MaxInvalid
    /\ invalidSeen' = [invalidSeen EXCEPT !.master = @ + 1]
    /\ OnWorkerMessage(h, raw)
    /\ UNCHANGED << numWorkers, peripheryVars, booted, workers, listeners, sched, now, toWorker, toMaster,
                    workerVars, readySignals, reports, lastTick, casts, failedSends >>

\* ------------------------------------------------------------- master loops
\* MasterLobbyService.getAllLobbies
getAllLobbies == SortByStartsAt(Flat(workerLobbies))

Registered == { workers[k] : k \in DOMAIN workers }

\* worker.send(msg, callback): a dead process takes nothing, the callback
\* gets the error and logs it
Send(queues, h, msg) ==
    IF proc[h].state = "running"
    THEN [queues EXCEPT ![h] = Append(@, msg)]
    ELSE queues

HasRoom(q) == Len(q) < MaxQueue

\* broadcastLobbies as it would be if it skipped the workers that are not
\* in the ready-set
broadcastLobbies_OnlyReady ==
    LET msg == MasterLobbiesBroadcast([serverTime |-> now, games |-> getAllLobbies])
    IN toWorker' = [h \in Handles |->
                      IF /\ h \in Registered
                         /\ proc[h].state = "running"
                         /\ proc[h].id \in readyWorkers
                      THEN Append(toWorker[h], msg)
                      ELSE toWorker[h]]

\* broadcastLobbies as it would be if a send that fails ended the fan-out:
\* the workers behind the first dead one, in the order of the ids, get nothing
broadcastLobbies_StopsAtFailure ==
    LET msg == MasterLobbiesBroadcast([serverTime |-> now, games |-> getAllLobbies])
    IN toWorker' = [h \in Handles |->
                      IF /\ h \in Registered
                         /\ proc[h].state = "running"
                         /\ \A k \in DOMAIN workers :
                               k < proc[h].id => proc[workers[k]].state = "running"
                      THEN Append(toWorker[h], msg)
                      ELSE toWorker[h]]

\* MasterLobbyService.broadcastLobbies
broadcastLobbies ==
    LET msg == MasterLobbiesBroadcast([serverTime |-> now, games |-> getAllLobbies])
    IN toWorker' = [h \in Handles |->
                      IF h \in Registered /\ proc[h].state = "running"
                      THEN Append(toWorker[h], msg)
                      ELSE toWorker[h]]

\* the broadcast as it would be if both workloads ran on one loop, one after
\* the other: no broadcast while maybeScheduleLobby is suspended
BroadcastTick_SharedLoop ==
    /\ Quiet
    /\ polling.broadcast >= 1
    /\ sched.pc = "idle"
    /\ \A h \in Registered : proc[h].state = "running" => HasRoom(toWorker[h])
    /\ broadcastLobbies
    /\ casts' = 1 - casts
    /\ failedSends' = [k \in WorkerIds |->
                          IF k \in DOMAIN workers /\ proc[workers[k]].state # "running"
                          THEN IF failedSends[k] < MaxFailedSends
                               THEN failedSends[k] + 1 ELSE failedSends[k]
                          ELSE 0]
    /\ UNCHANGED << numWorkers, peripheryVars, booted, masterVars, sched, now, toMaster, workerVars,
                    readySignals, reports, lastTick, invalidSeen >>

\* one tick of startPolling(async () => this.broadcastLobbies(), 250)
BroadcastTick ==
    /\ Quiet
    /\ polling.broadcast >= 1
    /\ \A h \in Registered : proc[h].state = "running" => HasRoom(toWorker[h])
    /\ broadcastLobbies
    /\ casts' = 1 - casts
    /\ failedSends' = [k \in WorkerIds |->
                          IF k \in DOMAIN workers /\ proc[workers[k]].state # "running"
                          THEN IF failedSends[k] < MaxFailedSends
                               THEN failedSends[k] + 1 ELSE failedSends[k]
                          ELSE 0]
    /\ UNCHANGED << numWorkers, peripheryVars, booted, masterVars, sched, now, toMaster, workerVars,
                    readySignals, reports, lastTick, invalidSeen >>

\* the handle registered under id k, 0 when there is none
RegisteredUnder(k) == IF k \in DOMAIN workers THEN workers[k] ELSE 0

\* maybeScheduleLobby as it would be if the owner were picked by the size of
\* the inventory instead of by the identifier
maybeScheduleLobbyBegin_OwnerByLoad(gameID) ==
    LET lobbies == getAllLobbies
    IN IF Len(lobbies) >= LobbyThreshold
       THEN /\ sched' = IdleSched
            /\ lastTick' = [NoTick EXCEPT !.phase = "done",
                                           !.inventory = Len(lobbies)]
       ELSE /\ sched' = [pc |-> "fetch",
                         lastStart |-> MaxStartsAt(lobbies, now'),
                         gameID |-> gameID,
                         workerId |-> Len(lobbies) % numWorkers]
            /\ lastTick' = [NoTick EXCEPT !.phase = "fetch",
                                           !.inventory = Len(lobbies),
                                           !.registered = RegisteredUnder(sched'.workerId)]

\* maybeScheduleLobby as it would be if lastStart were the clock alone
maybeScheduleLobbyBegin_IgnoresAggregate(gameID) ==
    LET lobbies == getAllLobbies
    IN IF Len(lobbies) >= LobbyThreshold
       THEN /\ sched' = IdleSched
            /\ lastTick' = [NoTick EXCEPT !.phase = "done",
                                           !.inventory = Len(lobbies)]
       ELSE /\ sched' = [pc |-> "fetch",
                         lastStart |-> now',
                         gameID |-> gameID,
                         workerId |-> workerIndex(gameID)]
            /\ lastTick' = [NoTick EXCEPT !.phase = "fetch",
                                           !.inventory = Len(lobbies),
                                           !.registered = RegisteredUnder(sched'.workerId)]

\* maybeScheduleLobby as it would be with "lobbies.length > 2"
maybeScheduleLobbyBegin_ThresholdOffByOne(gameID) ==
    LET lobbies == getAllLobbies
    IN IF Len(lobbies) > LobbyThreshold
       THEN /\ sched' = IdleSched
            /\ lastTick' = [NoTick EXCEPT !.phase = "done",
                                           !.inventory = Len(lobbies)]
       ELSE /\ sched' = [pc |-> "fetch",
                         lastStart |-> MaxStartsAt(lobbies, now'),
                         gameID |-> gameID,
                         workerId |-> workerIndex(gameID)]
            /\ lastTick' = [NoTick EXCEPT !.phase = "fetch",
                                           !.inventory = Len(lobbies),
                                           !.registered = RegisteredUnder(sched'.workerId)]

\* maybeScheduleLobby up to "await this.playlist.gameConfig()"
maybeScheduleLobbyBegin(gameID) ==
    LET lobbies == getAllLobbies
    IN IF Len(lobbies) >= LobbyThreshold
       THEN /\ sched' = IdleSched
            /\ lastTick' = [NoTick EXCEPT !.phase = "done",
                                           !.inventory = Len(lobbies)]
       ELSE /\ sched' = [pc |-> "fetch",
                         lastStart |-> MaxStartsAt(lobbies, now'),
                         gameID |-> gameID,
                         workerId |-> workerIndex(gameID)]
            /\ lastTick' = [NoTick EXCEPT !.phase = "fetch",
                                           !.inventory = Len(lobbies),
                                           !.registered = RegisteredUnder(sched'.workerId)]

\* maybeScheduleLobby as it would be if it sent the command to every worker
maybeScheduleLobbyResume_SendsToAll(ok) ==
    IF ~ok
    THEN /\ lastTick' = [lastTick EXCEPT !.phase = "done"]
         /\ UNCHANGED toWorker
    ELSE /\ toWorker' = [h \in Handles |->
                            IF h \in Registered /\ proc[h].state = "running"
                            THEN Append(toWorker[h],
                                        MasterCreateGame(sched.gameID,
                                            sched.lastStart + GameCreationRate))
                            ELSE toWorker[h]]
         /\ lastTick' = [lastTick EXCEPT
                            !.phase = "done", !.fetched = TRUE,
                            !.cmds = Cardinality(Registered),
                            !.to = workers[sched.workerId],
                            !.gameID = sched.gameID,
                            !.startsAt = sched.lastStart + GameCreationRate]

\* maybeScheduleLobby as it would be if it kept the Worker object that
\* startMaster registered under the index
maybeScheduleLobbyResume_CachedHandle(ok) ==
    IF ~ok
    THEN /\ lastTick' = [lastTick EXCEPT !.phase = "done"]
         /\ UNCHANGED toWorker
    ELSE LET worker == sched.workerId + 1
         IN /\ toWorker' = Send(toWorker, worker,
                                MasterCreateGame(sched.gameID,
                                    sched.lastStart + GameCreationRate))
            /\ lastTick' = [lastTick EXCEPT
                               !.phase = "done", !.fetched = TRUE,
                               !.cmds = @ + 1, !.to = worker,
                               !.gameID = sched.gameID,
                               !.startsAt = sched.lastStart + GameCreationRate]

\* maybeScheduleLobby as it would be if a failed fetch were swallowed and
\* the command sent without a configuration
maybeScheduleLobbyResume_SendsOnFailure(ok) ==
    IF sched.workerId \notin DOMAIN workers
    THEN /\ lastTick' = [lastTick EXCEPT !.phase = "done", !.fetched = ok]
         /\ UNCHANGED toWorker
    ELSE LET worker == workers[sched.workerId]
         IN /\ toWorker' = Send(toWorker, worker,
                                MasterCreateGame(sched.gameID,
                                    sched.lastStart + GameCreationRate))
            /\ lastTick' = [lastTick EXCEPT
                               !.phase = "done", !.fetched = ok,
                               !.cmds = @ + 1, !.to = worker,
                               !.gameID = sched.gameID,
                               !.startsAt = sched.lastStart + GameCreationRate]

\* maybeScheduleLobby as it would be if a command whose worker is missing
\* went to another registered worker
maybeScheduleLobbyResume_Reroutes(ok) ==
    IF ~ok
    THEN /\ lastTick' = [lastTick EXCEPT !.phase = "done"]
         /\ UNCHANGED toWorker
    ELSE IF DOMAIN workers = {}
         THEN /\ lastTick' = [lastTick EXCEPT !.phase = "done", !.fetched = TRUE]
              /\ UNCHANGED toWorker
         ELSE LET worker == IF sched.workerId \in DOMAIN workers
                            THEN workers[sched.workerId]
                            ELSE workers[CHOOSE k \in DOMAIN workers : TRUE]
              IN /\ toWorker' = Send(toWorker, worker,
                                     MasterCreateGame(sched.gameID,
                                         sched.lastStart + GameCreationRate))
                 /\ lastTick' = [lastTick EXCEPT
                                    !.phase = "done", !.fetched = TRUE,
                                    !.cmds = @ + 1, !.to = worker,
                                    !.gameID = sched.gameID,
                                    !.startsAt = sched.lastStart + GameCreationRate]

\* maybeScheduleLobby as it would be if "this.workers.get(workerId)" stood
\* before the await: the command goes to the handle registered when the tick
\* began
maybeScheduleLobbyResume_HandleBeforeFetch(ok) ==
    IF ~ok
    THEN /\ lastTick' = [lastTick EXCEPT !.phase = "done"]
         /\ UNCHANGED toWorker
    ELSE IF lastTick.registered = 0
         THEN /\ lastTick' = [lastTick EXCEPT !.phase = "done", !.fetched = TRUE]
              /\ UNCHANGED toWorker
         ELSE LET worker == lastTick.registered
              IN /\ toWorker' = Send(toWorker, worker,
                                     MasterCreateGame(sched.gameID,
                                         sched.lastStart + GameCreationRate))
                 /\ lastTick' = [lastTick EXCEPT
                                    !.phase = "done", !.fetched = TRUE,
                                    !.cmds = @ + 1, !.to = worker,
                                    !.gameID = sched.gameID,
                                    !.startsAt = sched.lastStart + GameCreationRate]

\* maybeScheduleLobby from the return of playlist.gameConfig(): it throws
\* (ok = FALSE), and startPolling catches and logs, or yields a configuration
maybeScheduleLobbyResume(ok) ==
    IF ~ok
    THEN /\ lastTick' = [lastTick EXCEPT !.phase = "done"]
         /\ UNCHANGED toWorker
    ELSE IF sched.workerId \notin DOMAIN workers
         THEN /\ lastTick' = [lastTick EXCEPT !.phase = "done", !.fetched = TRUE]
              /\ UNCHANGED toWorker
         ELSE LET worker == workers[sched.workerId]
              IN /\ toWorker' = Send(toWorker, worker,
                                     MasterCreateGame(sched.gameID,
                                         sched.lastStart + GameCreationRate))
                 /\ lastTick' = [lastTick EXCEPT
                                    !.phase = "done", !.fetched = TRUE,
                                    !.cmds = @ + 1, !.to = worker,
                                    !.gameID = sched.gameID,
                                    !.startsAt = sched.lastStart + GameCreationRate]

\* playlist.gameConfig() is asynchronous and may fail: it yields a
\* configuration (TRUE) or throws (FALSE)
PlaylistOutcomes == BOOLEAN

\* startPolling as it would be with a fixed-rate timer that fires whether or
\* not the tick before has completed
TickMayStart_FixedRate == TRUE

\* startPolling runs the next tick of a loop only after the tick before has
\* completed
TickMayStart == sched.pc = "idle"

\* a tick of startPolling(async () => await this.maybeScheduleLobby(), 1000)
\* starts; one interval of the loop has passed on the clock since the tick
\* before
ScheduleTickAt(gameID, time) ==
    /\ Quiet
    /\ polling.schedule >= 1
    /\ TickMayStart
    /\ now' = time
    /\ maybeScheduleLobbyBegin(gameID)
    /\ UNCHANGED << numWorkers, peripheryVars, booted, masterVars, toWorker, toMaster, workerVars,
                    readySignals, reports, invalidSeen, casts, failedSends >>

\* the ticks of the first "limit" intervals
ScheduleTickWithin(gameID, limit) ==
    /\ now < limit
    /\ ScheduleTickAt(gameID, now + 1)

\* the ticks of a loop that never stops: the clock is read up to MaxTime,
\* and every tick after that reads MaxTime again
ScheduleTickForever(gameID) ==
    ScheduleTickAt(gameID, IF now < MaxTime THEN now + 1 ELSE now)

ScheduleTick(gameID) == ScheduleTickWithin(gameID, MaxTime)

\* startPolling as it would be if a failure of the loop's work ended the loop
AfterTick_StopsOnFailure(ok) ==
    IF ok THEN polling ELSE [polling EXCEPT !.schedule = 0]

\* the loops after a tick of the scheduling loop has returned (ok) or thrown:
\* startPolling catches the failure and goes on
AfterTick(ok) == polling

\* the playlist answers and the tick runs to its end
ScheduleResume(ok) ==
    /\ Quiet
    /\ sched.pc = "fetch"
    /\ (ok /\ sched.workerId \in DOMAIN workers
           /\ proc[workers[sched.workerId]].state = "running")
          => HasRoom(toWorker[workers[sched.workerId]])
    /\ maybeScheduleLobbyResume(ok)
    /\ sched' = IdleSched
    /\ polling' = AfterTick(ok)
    /\ UNCHANGED << numWorkers, peripheryVars, booted, workers, listeners, workerLobbies,
                    readyWorkers, started, now, toMaster, workerVars,
                    readySignals, reports, invalidSeen, casts, failedSends >>

\* ------------------------------------------------------------- supervisor
\* a process that has exited: what it held is gone
Reaped(id) == [state |-> "reaped", id |-> id, readySent |-> FALSE, games |-> <<>>]

Exits == { h \in Handles : proc[h].state = "reaped" }

\* the handle the next cluster.fork returns
NextHandle == CHOOSE h \in Handles :
                  /\ proc[h].state = "unborn"
                  /\ \A g \in Handles : proc[g].state = "unborn" => h <= g

\* the "exit" handler as it would be if it deregistered the worker and
\* forked no replacement
OnExit_NoRestart(h, envKnown) ==
    IF ~envKnown
    THEN /\ proc' = [proc EXCEPT ![h] = Reaped(proc[h].id)]
         /\ UNCHANGED << workers, listeners, workerLobbies, readyWorkers, started >>
    ELSE LET st == removeWorker(proc[h].id, Coordinator)
         IN /\ proc' = [proc EXCEPT ![h] = Reaped(proc[h].id)]
            /\ workers' = st.workers
            /\ listeners' = st.listeners
            /\ workerLobbies' = st.workerLobbies
            /\ readyWorkers' = st.readyWorkers
            /\ started' = st.started

\* cluster.on("exit", ...): envKnown is whether worker.process.env.WORKER_ID
\* is defined
OnExit(h, envKnown) ==
    IF ~envKnown
    THEN /\ proc' = [proc EXCEPT ![h] = Reaped(proc[h].id)]
         /\ UNCHANGED << workers, listeners, workerLobbies, readyWorkers, started >>
    ELSE LET workerIdNum == proc[h].id
             newWorker == NextHandle
             st == registerWorker(workerIdNum, newWorker,
                                  removeWorker(workerIdNum, Coordinator))
         IN /\ proc' = [proc EXCEPT ![h] = Reaped(workerIdNum),
                                    ![newWorker] = Forked(workerIdNum)]
            /\ workers' = st.workers
            /\ listeners' = st.listeners
            /\ workerLobbies' = st.workerLobbies
            /\ readyWorkers' = st.readyWorkers
            /\ started' = st.started

\* a worker process exits and the master handles the "exit" event.  Payloads
\* for the dead process are lost; those it had sent may still be read
WorkerExitWithin(h, envKnown, limit) ==
    /\ booted
    /\ proc[h].state = "running"
    /\ Cardinality(Exits) < limit
    /\ envKnown => \E g \in Handles : proc[g].state = "unborn"
    /\ OnExit(h, envKnown)
    /\ toWorker' = [toWorker EXCEPT ![h] = << >>]
    /\ lobbyClients' = [lobbyClients EXCEPT ![h] = {}]
    /\ socket' = [c \in Conns |-> IF socket[c].owner = h THEN NoSocket ELSE socket[c]]
    /\ reports' = IF envKnown THEN [reports EXCEPT ![proc[h].id] = NoReport] ELSE reports
    /\ UNCHANGED << numWorkers, peripheryVars, booted, polling, sched, now, toMaster, readySignals,
                    lastTick, invalidSeen, casts, failedSends >>

WorkerExit(h, envKnown) == WorkerExitWithin(h, envKnown, MaxRestarts)

\* ------------------------------------------------------------- worker
\* GameManager.game(id) !== null
GameExists(h, gameID) == \E i \in 1 .. Len(proc[h].games) : proc[h].games[i].gameID = gameID

\* GameManager.createGame(id, gameConfig, undefined, startsAt)
CreateGame(h, gameID, startsAt) ==
    [proc EXCEPT ![h].games =
        Append(@, [gameID |-> gameID, startsAt |-> startsAt, public |-> TRUE])]

\* GameManager.publicLobbies(): the games that are public and not started
PublicLobbies(h) ==
    SelectIdx(proc[h].games,
              [i \in 1 .. Len(proc[h].games) |-> proc[h].games[i].public])

\* the lobbies of sendMyLobbiesToMaster as they would be if every game the
\* GameManager knows were reported, started or not
MyLobbies_IncludesStarted(h) ==
    [i \in 1 .. Len(proc[h].games) |->
        PublicGameInfo(proc[h].games[i].gameID, 0, proc[h].games[i].startsAt)]

\* the lobbies of sendMyLobbiesToMaster: publicLobbies() mapped to
\* PublicGameInfo
MyLobbies(h) ==
    LET lobbies == PublicLobbies(h)
    IN [i \in 1 .. Len(lobbies) |->
          PublicGameInfo(lobbies[i].gameID, 0, lobbies[i].startsAt)]

\* WorkerLobbyService.sendMyLobbiesToMaster
sendMyLobbiesToMaster(h) ==
    toMaster' = [toMaster EXCEPT ![h] = Append(@, WorkerLobbyList(MyLobbies(h)))]

\* broadcastLobbiesToClients as it would be without the readyState check
broadcastLobbiesToClients_SendsToAll(h, publicGames) ==
    /\ socket' = [c \in Conns |->
                     IF c \in lobbyClients[h]
                     THEN [socket[c] EXCEPT !.received = publicGames]
                     ELSE socket[c]]
    /\ lobbyClients' = lobbyClients

\* broadcastLobbiesToClients as it would be if it only skipped the clients
\* that are not OPEN
broadcastLobbiesToClients_NoPrune(h, publicGames) ==
    /\ socket' = [c \in Conns |->
                     IF c \in lobbyClients[h] /\ socket[c].readyState = "OPEN"
                     THEN [socket[c] EXCEPT !.received = publicGames]
                     ELSE socket[c]]
    /\ lobbyClients' = lobbyClients

\* WorkerLobbyService.broadcastLobbiesToClients: JSON.stringify(publicGames)
\* goes to every client that is OPEN, the others leave lobbyClients
broadcastLobbiesToClients(h, publicGames) ==
    LET clientsToRemove == { c \in lobbyClients[h] : socket[c].readyState # "OPEN" }
    IN /\ socket' = [c \in Conns |->
                       IF c \in lobbyClients[h] /\ socket[c].readyState = "OPEN"
                       THEN [socket[c] EXCEPT !.received = publicGames]
                       ELSE socket[c]]
       /\ lobbyClients' = [lobbyClients EXCEPT ![h] = @ \ clientsToRemove]

\* the listener as it would be without the "game(msg.gameID) !== null" check
OnMasterMessage_AlwaysCreates(h, raw) ==
    IF ~MasterMessageSchema(raw)
    THEN UNCHANGED << proc, toMaster, lobbyClients, socket >>
    ELSE IF raw.type = "lobbiesBroadcast"
         THEN /\ broadcastLobbiesToClients(h, raw.publicGames)
              /\ sendMyLobbiesToMaster(h)
              /\ UNCHANGED proc
         ELSE /\ proc' = CreateGame(h, raw.gameID, raw.startsAt)
              /\ UNCHANGED << toMaster, lobbyClients, socket >>

\* the listener as it would be if it used the payload without safeParse
OnMasterMessage_NoValidation(h, raw) ==
    IF raw.type = "lobbiesBroadcast"
    THEN /\ broadcastLobbiesToClients(h, raw.publicGames)
         /\ sendMyLobbiesToMaster(h)
         /\ UNCHANGED proc
    ELSE IF raw.type = "createGame"
         THEN /\ proc' = IF GameExists(h, raw.gameID)
                         THEN proc
                         ELSE CreateGame(h, raw.gameID, raw.startsAt)
              /\ UNCHANGED << toMaster, lobbyClients, socket >>
         ELSE UNCHANGED << proc, toMaster, lobbyClients, socket >>

\* the process.on("message") listener of setupIPCListener
OnMasterMessage(h, raw) ==
    IF ~MasterMessageSchema(raw)
    THEN UNCHANGED << proc, toMaster, lobbyClients, socket >>
    ELSE IF raw.type = "lobbiesBroadcast"
         THEN /\ broadcastLobbiesToClients(h, raw.publicGames)
              /\ sendMyLobbiesToMaster(h)
              /\ UNCHANGED proc
         ELSE /\ proc' = IF GameExists(h, raw.gameID)
                         THEN proc
                         ELSE CreateGame(h, raw.gameID, raw.startsAt)
              /\ UNCHANGED << toMaster, lobbyClients, socket >>

\* WorkerLobbyService.sendReady(workerId), called once the worker is set up
WorkerSendReady(h) ==
    /\ Quiet
    /\ proc[h].state = "running"
    /\ ~proc[h].readySent
    /\ HasRoom(toMaster[h])
    /\ proc' = [proc EXCEPT ![h].readySent = TRUE]
    /\ toMaster' = [toMaster EXCEPT ![h] = Append(@, WorkerReady(proc[h].id))]
    /\ UNCHANGED << numWorkers, peripheryVars, booted, masterVars, sched, now, toWorker, lobbyClients,
                    socket, histVars >>

\* a payload of the master reaches the worker's listener
WorkerReceive(h) ==
    /\ proc[h].state = "running"
    /\ toWorker[h] # << >>
    /\ Head(toWorker[h]).type = "lobbiesBroadcast" => HasRoom(toMaster[h])
    /\ toWorker' = [toWorker EXCEPT ![h] = Tail(@)]
    /\ OnMasterMessage(h, Head(toWorker[h]))
    /\ UNCHANGED << numWorkers, peripheryVars, booted, masterVars, sched, now, histVars >>

\* a payload that is no MasterMessage reaches the worker's listener
WorkerReceiveInvalid(h, raw) ==
    /\ proc[h].state = "running"
    /\ invalidSeen.worker < MaxInvalid
    /\ HasRoom(toMaster[h])
    /\ invalidSeen' = [invalidSeen EXCEPT !.worker = @ + 1]
    /\ OnMasterMessage(h, raw)
    /\ UNCHANGED << numWorkers, peripheryVars, booted, masterVars, sched, now, toWorker, readySignals, reports,
                    lastTick, casts, failedSends >>

\* a lobby leaves the public list of its GameManager (the game starts); the
\* game itself stays known to game(id)
LobbyStarts(h, i) ==
    /\ proc[h].state = "running"
    /\ i \in 1 .. Len(proc[h].games)
    /\ proc[h].games[i].public
    /\ proc' = [proc EXCEPT ![h].games[i].public = FALSE]
    /\ UNCHANGED << numWorkers, peripheryVars, booted, masterVars, sched, now, toWorker, toMaster,
                    lobbyClients, socket, histVars >>

\* ------------------------------------------------------------- viewers
\* lobbiesWss.on("connection"): the socket joins lobbyClients
ViewerConnect(h, c) ==
    /\ proc[h].state = "running"
    /\ socket[c].readyState = "NONE"
    /\ socket' = [socket EXCEPT ![c] = [owner |-> h, readyState |-> "OPEN",
                                        received |-> NoPublicGames]]
    /\ lobbyClients' = [lobbyClients EXCEPT ![h] = @ \cup {c}]
    /\ UNCHANGED << numWorkers, peripheryVars, booted, masterVars, sched, now, proc, toWorker, toMaster, histVars >>

\* the connection goes down; its "close" event is still to be dispatched
ViewerDown(c) ==
    /\ socket[c].readyState \in {"OPEN", "CLOSING"}
    /\ socket' = [socket EXCEPT ![c].readyState = "CLOSED"]
    /\ UNCHANGED << numWorkers, peripheryVars, booted, masterVars, sched, now, proc, toWorker, toMaster,
                    lobbyClients, histVars >>

\* ws.on("close")
ViewerClose(c) ==
    /\ socket[c].readyState = "CLOSED"
    /\ lobbyClients' = [lobbyClients EXCEPT ![socket[c].owner] = @ \ {c}]
    /\ socket' = [socket EXCEPT ![c] = NoSocket]
    /\ UNCHANGED << numWorkers, peripheryVars, booted, masterVars, sched, now, proc, toWorker, toMaster, histVars >>

\* ws.on("error"): the socket leaves lobbyClients and, when OPEN, is closed
\* with code 1011
ViewerError(c) ==
    /\ socket[c].readyState # "NONE"
    /\ lobbyClients' = [lobbyClients EXCEPT ![socket[c].owner] = @ \ {c}]
    /\ socket' = [socket EXCEPT ![c].readyState =
                     IF @ = "OPEN" THEN "CLOSING" ELSE @]
    /\ UNCHANGED << numWorkers, peripheryVars, booted, masterVars, sched, now, proc, toWorker, toMaster, histVars >>

\* ------------------------------------------------------------- behaviours
\* the master and its pool of workers
Next ==
    \/ StartMaster
    \/ \E h \in Handles : MasterReceive(h)
    \/ \E h \in Handles, raw \in InvalidWorkerPayloads : MasterReceiveInvalid(h, raw)
    \/ BroadcastTick
    \/ \E gameID \in GameIDs : ScheduleTick(gameID)
    \/ \E ok \in PlaylistOutcomes : ScheduleResume(ok)
    \/ \E h \in Handles, envKnown \in BOOLEAN : WorkerExit(h, envKnown)
    \/ \E h \in Handles : WorkerSendReady(h)
    \/ \E h \in Handles : WorkerReceive(h)
    \/ \E h \in Handles, i \in 1 .. MaxGameIDs : LobbyStarts(h, i)

Spec == Init /\ [][Next]_vars

\* aggregates a broadcast may carry
SampleGames ==
    { << >>,
      << PublicGameInfo(0, 0, 3) >>,
      << PublicGameInfo(1, 0, 3), PublicGameInfo(0, 0, 5) >> }

\* payloads the master may send to the worker behind handle h
MasterPayloads(h) ==
    { MasterLobbiesBroadcast([serverTime |-> 1, games |-> g]) : g \in SampleGames }
    \cup { MasterCreateGame(g, t) :
             g \in { x \in GameIDs : workerIndex(x) = proc[h].id },
             t \in {3, 5} }

\* the master sends a payload to a worker
MasterSends(h, msg) ==
    /\ proc[h].state = "running"
    /\ HasRoom(toWorker[h])
    /\ toWorker' = [toWorker EXCEPT ![h] = Append(@, msg)]
    /\ UNCHANGED << numWorkers, peripheryVars, booted, masterVars, sched, now, toMaster, workerVars, histVars >>

\* one worker with its viewers, fed by the coordinator
NextWorker ==
    \/ StartMaster
    \/ WorkerSendReady(1)
    \/ MasterReceive(1)
    \/ \E msg \in MasterPayloads(1) : MasterSends(1, msg)
    \/ WorkerReceive(1)
    \/ \E raw \in InvalidMasterPayloads : WorkerReceiveInvalid(1, raw)
    \/ \E i \in 1 .. MaxGameIDs : LobbyStarts(1, i)
    \/ \E c \in Conns : ViewerConnect(1, c)
    \/ \E c \in Conns : ViewerDown(c)
    \/ \E c \in Conns : ViewerClose(c)
    \/ \E c \in Conns : ViewerError(c)

SpecWorker == Init /\ [][NextWorker]_vars

\* the master and a pool whose workers do not exit, over MaxTicks intervals
NextSched ==
    \/ StartMaster
    \/ \E h \in Handles : MasterReceive(h)
    \/ BroadcastTick
    \/ \E gameID \in GameIDs : ScheduleTickWithin(gameID, MaxTicks)
    \/ \E ok \in PlaylistOutcomes : ScheduleResume(ok)
    \/ \E h \in Handles : WorkerSendReady(h)
    \/ \E h \in Handles : WorkerReceive(h)
    \/ \E h \in Handles, i \in 1 .. MaxGameIDs : LobbyStarts(h, i)

SpecSched == Init /\ [][NextSched]_vars

\* a broadcast tick that finds the replies to the tick before handled
BroadcastTickDrained ==
    /\ \A h \in Registered : toMaster[h] = << >>
    /\ BroadcastTick

\* a pool whose workers do not exit and whose lobbies do not start, with one
\* identifier more to draw from: one worker may own two lobbies
NextDelivery ==
    \/ StartMaster
    \/ \E h \in Handles : MasterReceive(h)
    \/ BroadcastTick
    \/ \E gameID \in 0 .. MaxGameIDs : ScheduleTickWithin(gameID, MaxTicks)
    \/ \E ok \in PlaylistOutcomes : ScheduleResume(ok)
    \/ \E h \in Handles : WorkerSendReady(h)
    \/ \E h \in Handles : WorkerReceive(h)

SpecDelivery == Init /\ [][NextDelivery]_vars

\* the scenario of three workers: nobody exits, no lobby starts, and every
\* worker owns one of the identifiers drawn
NextScenario ==
    \/ StartMaster
    \/ \E h \in Handles : MasterReceive(h)
    \/ BroadcastTick
    \/ \E gameID \in 0 .. MaxGameIDs : ScheduleTick(gameID)
    \/ \E ok \in PlaylistOutcomes : ScheduleResume(ok)
    \/ \E h \in Handles : WorkerSendReady(h)
    \/ \E h \in Handles : WorkerReceive(h)

SpecScenario == InitPool(ScenarioWorkers) /\ [][NextScenario]_vars

\* the handles a pool of n workers may come to use
PoolHandles(n) == 1 .. (n + MaxRestarts)

\* a pool of one worker in a run that goes on for ever: the loops keep
\* ticking, no lobby starts, and an exit finds the handler without the
\* worker's id (worker.process has no env under Node's cluster module)
NextLive ==
    \/ StartMaster
    \/ \E h \in Handles : MasterReceive(h)
    \/ BroadcastTickDrained
    \/ \E gameID \in GameIDs : ScheduleTickForever(gameID)
    \/ \E ok \in PlaylistOutcomes : ScheduleResume(ok)
    \/ \E h \in Handles : WorkerExitWithin(h, FALSE, MaxRestarts)
    \/ \E h \in Handles : WorkerSendReady(h)
    \/ \E h \in Handles : WorkerReceive(h)

\* timers fire and IPC payloads are delivered again and again, a running
\* worker sends its workerReady, every identifier is drawn again and again
\* and the playlist does not fail for ever, whatever identifier the tick has
\* drawn; nothing makes a worker exit
LiveFairness ==
    /\ WF_vars(StartMaster)
    /\ \A h \in PoolHandles(LiveWorkers) : SF_vars(MasterReceive(h))
    /\ SF_vars(BroadcastTickDrained)
    /\ \A gameID \in GameIDs : SF_vars(ScheduleTickForever(gameID))
    /\ \A gameID \in GameIDs : SF_vars(sched.gameID = gameID /\ ScheduleResume(TRUE))
    /\ \A h \in PoolHandles(LiveWorkers) : SF_vars(WorkerSendReady(h))
    /\ \A h \in PoolHandles(LiveWorkers) : WF_vars(WorkerReceive(h))

SpecLive == InitPool(LiveWorkers) /\ [][NextLive]_vars /\ LiveFairness

\* a worker that has sent its workerReady exits while the pool is still
\* becoming ready
ExitWhileBooting(h, envKnown) ==
    /\ ~started
    /\ proc[h].readySent
    /\ WorkerExitWithin(h, envKnown, MaxCrashes)

\* the pool until the loops are started: every worker forked sends its
\* workerReady, and at most MaxCrashes of them exit after that, with either
\* outcome of the id lookup
NextBoot ==
    \/ StartMaster
    \/ \E h \in Handles : MasterReceive(h)
    \/ \E h \in Handles, envKnown \in BOOLEAN : ExitWhileBooting(h, envKnown)
    \/ \E h \in Handles : WorkerSendReady(h)

\* the master starts, a running worker sends its workerReady and what a
\* worker has sent is delivered; nothing makes a worker exit
BootFairness ==
    /\ WF_vars(StartMaster)
    /\ \A h \in PoolHandles(NumWorkers) : WF_vars(MasterReceive(h))
    /\ \A h \in PoolHandles(NumWorkers) : WF_vars(WorkerSendReady(h))

SpecBoot == Init /\ [][NextBoot]_vars /\ BootFairness

\* removeWorker(k) called on its own: the worker registered under k has
\* exited and no handle is registered in its place
RemoveWorker(k) ==
    /\ booted
    /\ k \in DOMAIN workers
    /\ proc[workers[k]].state = "running"
    /\ Cardinality(Exits) < MaxRestarts
    /\ LET h == workers[k]
           st == removeWorker(k, Coordinator)
       IN /\ proc' = [proc EXCEPT ![h] = Reaped(k)]
          /\ workers' = st.workers
          /\ listeners' = st.listeners
          /\ workerLobbies' = st.workerLobbies
          /\ readyWorkers' = st.readyWorkers
          /\ started' = st.started
          /\ toWorker' = [toWorker EXCEPT ![h] = << >>]
          /\ lobbyClients' = [lobbyClients EXCEPT ![h] = {}]
          /\ socket' = [c \in Conns |->
                           IF socket[c].owner = h THEN NoSocket ELSE socket[c]]
    /\ reports' = [reports EXCEPT ![k] = NoReport]
    /\ UNCHANGED << numWorkers, peripheryVars, booted, polling, sched, now, toMaster, readySignals,
                    lastTick, invalidSeen, casts, failedSends >>

\* registerWorker(k, worker) called for an id that has no handle
RegisterWorker(k) ==
    /\ booted
    /\ k \in WorkerIds \ DOMAIN workers
    /\ LET newWorker == NextHandle
           st == registerWorker(k, newWorker, Coordinator)
       IN /\ proc' = [proc EXCEPT ![newWorker] = Forked(k)]
          /\ workers' = st.workers
          /\ listeners' = st.listeners
          /\ workerLobbies' = st.workerLobbies
          /\ readyWorkers' = st.readyWorkers
          /\ started' = st.started
    /\ UNCHANGED << numWorkers, peripheryVars, booted, polling, sched, now, toWorker, toMaster,
                    lobbyClients, socket, histVars >>

\* the coordinator driven through its public methods one call at a time
NextService ==
    \/ StartMaster
    \/ \E h \in Handles : MasterReceive(h)
    \/ BroadcastTick
    \/ \E gameID \in GameIDs : ScheduleTick(gameID)
    \/ \E ok \in PlaylistOutcomes : ScheduleResume(ok)
    \/ \E k \in WorkerIds : RemoveWorker(k)
    \/ \E k \in WorkerIds : RegisterWorker(k)
    \/ \E h \in Handles : WorkerSendReady(h)
    \/ \E h \in Handles : WorkerReceive(h)

SpecService == Init /\ [][NextService]_vars

\* ------------------------------------------------------------- privileges
\* what fetchWithTimeout and the parse of the cosmetics yield: no response
\* (the fetch threw or timed out), a response that is not ok, a body that is
\* no JSON or fails CosmeticsSchema, or valid cosmetics
CosmeticsOutcomes == {"networkError", "httpError", "invalid", "ok"}

\* what the fetch of the profane words yields: no response, a response that
\* is not ok, a body that is no JSON, or a list of words
ProfaneWordsOutcomes == {"networkError", "httpError", "invalid", "ok"}

\* PrivilegeRefresher.get as it would be without the "?? failOpen" fallback
get_NoFallback == refresher.privilegeChecker

\* PrivilegeRefresher.get
get ==
    IF refresher.privilegeChecker.kind = "null"
    THEN refresher.failOpenPrivilegeChecker
    ELSE refresher.privilegeChecker

\* PrivilegeRefresher.loadPrivilegeChecker from the answers of both fetches:
\* the value of this.privilegeChecker when it returns or throws
loadPrivilegeChecker(cosmetics, profaneWords) ==
    IF cosmetics # "ok"
    THEN refresher.privilegeChecker
    ELSE PrivilegeCheckerImpl(refresher.loads + 1,
                              IF profaneWords = "ok" THEN "loaded" ELSE "empty")

\* PrivilegeRefresher.start
RefresherStart ==
    /\ refresher.polling = 0
    /\ refresher' = [refresher EXCEPT !.polling = 1]
    /\ UNCHANGED << clusterVars, censor, lobbySocket >>

\* a tick of startPolling(() => this.loadPrivilegeChecker(), refreshInterval)
\* starts and waits for both fetches
LoadBegin ==
    /\ refresher.polling >= 1
    /\ refresher.pc = "idle"
    /\ refresher.attempts < MaxLoads
    /\ refresher' = [refresher EXCEPT !.pc = "loading", !.attempts = @ + 1]
    /\ UNCHANGED << clusterVars, censor, lobbySocket >>

\* both fetches have answered and loadPrivilegeChecker runs to its end
LoadEnd(cosmetics, profaneWords) ==
    /\ refresher.pc = "loading"
    /\ refresher' = [refresher EXCEPT
                        !.pc = "idle",
                        !.privilegeChecker = loadPrivilegeChecker(cosmetics, profaneWords),
                        !.loads = IF cosmetics = "ok" THEN @ + 1 ELSE @]
    /\ UNCHANGED << clusterVars, censor, lobbySocket >>

\* a caller asks for the checker; the model keeps what the last call
\* returned
PrivilegeGet ==
    /\ refresher.gets < MaxGets
    /\ refresher' = [refresher EXCEPT !.got = get, !.gets = @ + 1]
    /\ UNCHANGED << clusterVars, censor, lobbySocket >>

\* a PrivilegeRefresher and its callers
NextRefresher ==
    \/ RefresherStart
    \/ LoadBegin
    \/ \E cosmetics \in CosmeticsOutcomes, profaneWords \in ProfaneWordsOutcomes :
          LoadEnd(cosmetics, profaneWords)
    \/ PrivilegeGet

SpecRefresher == Init /\ [][NextRefresher]_vars

\* ------------------------------------------------------------- usernames
\* the characters usernames are made of: brackets, a blank, letters in both
\* cases
NameChars == {"[", "]", " ", "a", "A", "b"}

\* the usernames censorUsername is called with
Usernames == UNION { [1 .. n -> NameChars] : n \in 0 .. MaxNameLen }

\* String.prototype.charCodeAt
charCodeAt(c) ==
    CASE c = " " -> 32 [] c = "A" -> 65 [] c = "B" -> 66 [] c = "[" -> 91
      [] c = "]" -> 93 [] c = "a" -> 97 [] c = "b" -> 98

\* String.prototype.toUpperCase
toUpperCase(s) ==
    [i \in 1 .. Len(s) |-> IF s[i] = "a" THEN "A" ELSE IF s[i] = "b" THEN "B" ELSE s[i]]

\* toAsciiLowerCaseTransformer
toAsciiLowerCase(s) ==
    [i \in 1 .. Len(s) |-> IF s[i] = "A" THEN "a" ELSE IF s[i] = "B" THEN "b" ELSE s[i]]

\* [a-zA-Z0-9]
IsAlphanumeric(c) == c \in {"a", "A", "b", "B"}

\* skipNonAlphabeticTransformer
SkipNonAlphabetic(s) == SelectSeq(s, IsAlphanumeric)

\* collapseDuplicatesTransformer: a run of one character counts once
CollapseDuplicates(s) ==
    SelectIdx(s, [i \in 1 .. Len(s) |-> i = 1 \/ s[i] # s[i - 1]])

\* String.prototype.indexOf, counted from 1; 0 when pat does not occur
IndexOf(s, pat) ==
    LET at == { i \in 1 .. (Len(s) - Len(pat) + 1) : SubSeq(s, i, i + Len(pat) - 1) = pat }
    IN IF at = {} THEN 0 ELSE CHOOSE i \in at : \A j \in at : i <= j

\* String.prototype.replace(pat, ""): the first occurrence of pat is removed
RemoveFirst(s, pat) ==
    LET i == IndexOf(s, pat)
    IN IF i = 0 THEN s
       ELSE SubSeq(s, 1, i - 1) \o SubSeq(s, i + Len(pat), Len(s))

\* String.prototype.trim
trim(s) ==
    LET inked == { i \in 1 .. Len(s) : s[i] # " " }
    IN IF inked = {} THEN << >>
       ELSE SubSeq(s, CHOOSE i \in inked : \A j \in inked : i <= j,
                      CHOOSE i \in inked : \A j \in inked : i >= j)

\* the places where /\[([a-zA-Z0-9]{2,5})\]/ matches, as << start, length of
\* the tag >>
ClanMatches(name) ==
    { m \in (1 .. Len(name)) \X (2 .. 5) :
        /\ m[1] + m[2] + 1 <= Len(name)
        /\ name[m[1]] = "["
        /\ \A j \in 1 .. m[2] : IsAlphanumeric(name[m[1] + j])
        /\ name[m[1] + m[2] + 1] = "]" }

\* getClanTagOriginalCase: the tag of the leftmost match in the case it was
\* typed in, << >> for null
getClanTagOriginalCase(name) ==
    LET ms == ClanMatches(name)
    IN IF ms = {} THEN << >>
       ELSE LET m == CHOOSE x \in ms : \A y \in ms : x[1] <= y[1]
            IN SubSeq(name, m[1] + 1, m[1] + m[2])

\* the words of the matcher's dataset
BannedWords == { << "b", "a" >> }

\* RegExpMatcher.hasMatch under the blacklist transformers of createMatcher
hasMatch(s, matcher) ==
    LET t == CollapseDuplicates(SkipNonAlphabetic(toAsciiLowerCase(s)))
    IN \E w \in matcher : IndexOf(t, w) # 0

isProfane(username, matcher) == hasMatch(username, matcher)

\* shadowNames, each name one symbol
shadowNames ==
    << "UnhuggedToday", "DaddysLilChamp", "BunnyKisses67", "SnugglePuppy",
       "CuddleMonster67", "DaddysLilStar", "SnuggleMuffin", "PeesALittle",
       "PleaseFullSendMe", "NanasLilMan", "NoAlliances", "TryingTooHard67",
       "MommysLilStinker", "NeedHugs", "MommysLilPeanut", "IWillBetrayU",
       "DaddysLilTater", "PreciousBubbles", "67 Cringelord", "Peace And Love",
       "AlmostPottyTrained" >>

RECURSIVE HashFrom(_, _, _)
\* the loop of simpleHash, "hash = (hash << 5) - hash + char; hash &= hash",
\* on the 32 bits of hash as << high half, low half >>
HashFrom(s, i, hash) ==
    IF i > Len(s) THEN hash
    ELSE LET low == hash[2] * 31 + charCodeAt(s[i])
             high == hash[1] * 31 + (low \div 65536)
         IN HashFrom(s, i + 1, << high % 65536, low % 65536 >>)

\* simpleHash: Math.abs of the 32-bit hash, as << high half, low half >>
simpleHash(s) ==
    LET hash == HashFrom(s, 1, << 0, 0 >>)
    IN IF hash[1] < 32768 THEN hash
       ELSE << (65535 - hash[1] + (IF hash[2] = 0 THEN 1 ELSE 0)) % 65536,
               (65536 - hash[2]) % 65536 >>

\* hash % n
HashMod(hash, n) == (((hash[1] % n) * (65536 % n)) + (hash[2] % n)) % n

\* censorUsernameWithMatcher as it was when a name with any profane part was
\* overwritten as a whole
censorUsernameWithMatcher_OverwritesWhole(username, matcher) ==
    LET clanTag == getClanTagOriginalCase(username)
        nameWithoutClan == IF clanTag # << >>
                           THEN trim(RemoveFirst(username, << "[" >> \o clanTag \o << "]" >>))
                           ELSE username
    IN IF isProfane(username, matcher)
       THEN << shadowNames[HashMod(simpleHash(nameWithoutClan), Len(shadowNames)) + 1] >>
       ELSE IF clanTag # << >>
            THEN << "[" >> \o toUpperCase(clanTag) \o << "]", " " >> \o nameWithoutClan
            ELSE nameWithoutClan

\* censorUsernameWithMatcher
censorUsernameWithMatcher(username, matcher) ==
    LET clanTag == getClanTagOriginalCase(username)
        nameWithoutClan == IF clanTag # << >>
                           THEN trim(RemoveFirst(username, << "[" >> \o clanTag \o << "]" >>))
                           ELSE username
        clanTagIsProfane == IF clanTag # << >> THEN isProfane(clanTag, matcher) ELSE FALSE
        usernameIsProfane == isProfane(nameWithoutClan, matcher)
        censoredName ==
            IF usernameIsProfane
            THEN << shadowNames[HashMod(simpleHash(nameWithoutClan), Len(shadowNames)) + 1] >>
            ELSE nameWithoutClan
    IN IF clanTag # << >> /\ ~clanTagIsProfane
       THEN << "[" >> \o toUpperCase(clanTag) \o << "]", " " >> \o censoredName
       ELSE censoredName

\* PrivilegeChecker.censorUsername(username) of a checker whose matcher holds
\* BannedWords
CensorUsername ==
    /\ ~censor.done
    /\ censor' = [censor EXCEPT
                     !.result = censorUsernameWithMatcher(censor.username, BannedWords),
                     !.done = TRUE]
    /\ UNCHANGED << clusterVars, refresher, lobbySocket >>

\* a call of censorUsername with any username
InitCensor ==
    /\ InitCluster(NumWorkers)
    /\ refresher = NewRefresher
    /\ lobbySocket = NewLobbySocket
    /\ censor \in { [NoCensor EXCEPT !.username = u] : u \in Usernames }

NextCensor == CensorUsername

SpecCensor == InitCensor /\ [][NextCensor]_vars

\* ------------------------------------------------------------- lobby socket
\* WebSocket.close(): a socket that is connecting or open starts to close,
\* its "close" event follows; on any other socket the call does nothing
CloseSocket(ls, i) ==
    IF ls.sockets[i].readyState \in {"CONNECTING", "OPEN"}
    THEN [ls EXCEPT !.sockets[i].readyState = "CLOSING"]
    ELSE ls

\* PublicLobbySocket.scheduleReconnect
scheduleReconnect(ls) ==
    IF ls.wsReconnectTimeout # 0 THEN ls
    ELSE [ls EXCEPT !.wsReconnectTimeout = ls.timersSet + 1,
                    !.timers = @ \cup {ls.timersSet + 1},
                    !.timersSet = @ + 1]

\* PublicLobbySocket.handleClose, run by the "close" event of socket i
handleClose(ls, i) ==
    LET counted == IF ~ls.wsAttemptCounted
                   THEN [ls EXCEPT !.wsAttemptCounted = TRUE,
                                   !.wsConnectionAttempts = @ + 1,
                                   !.sockets[i].counted = @ + 1]
                   ELSE ls
    IN IF counted.wsConnectionAttempts >= maxWsAttempts
       THEN counted
       ELSE scheduleReconnect(counted)

\* PublicLobbySocket.handleConnectError
handleConnectError(ls) ==
    LET counted == IF ~ls.wsAttemptCounted
                   THEN [ls EXCEPT !.wsAttemptCounted = TRUE,
                                   !.wsConnectionAttempts = @ + 1]
                   ELSE ls
    IN IF counted.wsConnectionAttempts >= maxWsAttempts
       THEN counted
       ELSE scheduleReconnect(counted)

\* PublicLobbySocket.handleOpen
handleOpen(ls) ==
    [ls EXCEPT !.wsConnectionAttempts = 0,
               !.wsReconnectTimeout = 0,
               !.timers = @ \ {ls.wsReconnectTimeout}]

\* the WebSocket object the next "new WebSocket" returns
NewSocket(ls) ==
    CHOOSE i \in 1 .. MaxSockets :
        /\ ls.sockets[i].readyState = "NONE"
        /\ \A j \in 1 .. MaxSockets : ls.sockets[j].readyState = "NONE" => i <= j

\* PublicLobbySocket.connectWebSocket; throws is whether "new WebSocket"
\* throws
connectWebSocket(ls, throws) ==
    LET cleaned == IF ls.ws # 0
                   THEN [CloseSocket(ls, ls.ws) EXCEPT !.ws = 0]
                   ELSE ls
    IN IF throws
       THEN handleConnectError([cleaned EXCEPT !.throws = @ + 1])
       ELSE [cleaned EXCEPT !.ws = NewSocket(ls),
                            !.sockets[NewSocket(ls)].readyState = "CONNECTING",
                            !.wsAttemptCounted = FALSE]

\* PublicLobbySocket.disconnectWebSocket
disconnectWebSocket(ls) ==
    LET closed == IF ls.ws # 0
                  THEN [CloseSocket(ls, ls.ws) EXCEPT !.ws = 0]
                  ELSE ls
    IN [closed EXCEPT !.wsReconnectTimeout = 0,
                      !.timers = @ \ {ls.wsReconnectTimeout}]

\* PublicLobbySocket.handleMessage: a frame that does not parse closes the
\* current socket if it is open
handleMessage(ls, valid) ==
    IF valid THEN ls
    ELSE IF ls.ws # 0 /\ ls.sockets[ls.ws].readyState = "OPEN"
         THEN CloseSocket(ls, ls.ws)
         ELSE ls

\* a "new WebSocket" can be made: a further object, or a further throw
CanConnect(ls, throws) ==
    IF throws THEN ls.throws < MaxThrows
    ELSE \E i \in 1 .. MaxSockets : ls.sockets[i].readyState = "NONE"

\* PublicLobby.connectedCallback: PublicLobbySocket.start up to
\* "await getServerConfigFromClient()". The element is connected when it is
\* new or has been disconnected
LobbyStart ==
    /\ lobbySocket.starts < MaxStarts
    /\ lobbySocket.starts = 0 \/ lobbySocket.stopped
    /\ lobbySocket' = [lobbySocket EXCEPT !.wsConnectionAttempts = 0,
                                          !.starting = @ + 1,
                                          !.starts = @ + 1,
                                          !.stopped = FALSE,
                                          !.unopened = 0]
    /\ UNCHANGED << clusterVars, refresher, censor >>

\* PublicLobbySocket.start from the return of getServerConfigFromClient()
LobbyStartResume(throws) ==
    /\ lobbySocket.starting > 0
    /\ CanConnect(lobbySocket, throws)
    /\ lobbySocket' = connectWebSocket([lobbySocket EXCEPT !.starting = @ - 1], throws)
    /\ UNCHANGED << clusterVars, refresher, censor >>

\* PublicLobby.disconnectedCallback and PublicLobby.stop:
\* PublicLobbySocket.stop
LobbyStop ==
    /\ lobbySocket.starts > 0
    /\ lobbySocket' = [disconnectWebSocket(lobbySocket) EXCEPT !.stopped = TRUE]
    /\ UNCHANGED << clusterVars, refresher, censor >>

\* the "open" event of socket i
SocketOpen(i) ==
    /\ lobbySocket.sockets[i].readyState = "CONNECTING"
    /\ lobbySocket' = [handleOpen([lobbySocket EXCEPT
                                      !.sockets[i].readyState = "OPEN",
                                      !.sockets[i].opened = TRUE])
                          EXCEPT !.unopened = 0]
    /\ UNCHANGED << clusterVars, refresher, censor >>

\* the "close" event of socket i: the connection failed, went down, or was
\* closed by close()
SocketClose(i) ==
    /\ lobbySocket.sockets[i].readyState \in {"CONNECTING", "OPEN", "CLOSING"}
    /\ lobbySocket' = [handleClose([lobbySocket EXCEPT !.sockets[i].readyState = "CLOSED"], i)
                          EXCEPT !.unopened = IF lobbySocket.sockets[i].opened
                                              THEN @ ELSE @ + 1]
    /\ UNCHANGED << clusterVars, refresher, censor >>

\* a "message" event of socket i whose frame does not parse
SocketMessageInvalid(i) ==
    /\ lobbySocket.sockets[i].readyState = "OPEN"
    /\ lobbySocket' = handleMessage(lobbySocket, FALSE)
    /\ UNCHANGED << clusterVars, refresher, censor >>

\* a reconnect timeout that is pending fires
ReconnectTimerFires(throws) ==
    /\ CanConnect(lobbySocket, throws)
    /\ \E t \in lobbySocket.timers :
          lobbySocket' = connectWebSocket([lobbySocket EXCEPT !.timers = @ \ {t},
                                                             !.wsReconnectTimeout = 0],
                                         throws)
    /\ UNCHANGED << clusterVars, refresher, censor >>

\* a PublicLobbySocket, its owner and its connections
NextLobbySocket ==
    \/ LobbyStart
    \/ \E throws \in BOOLEAN : LobbyStartResume(throws)
    \/ LobbyStop
    \/ \E i \in 1 .. MaxSockets : SocketOpen(i)
    \/ \E i \in 1 .. MaxSockets : SocketClose(i)
    \/ \E i \in 1 .. MaxSockets : SocketMessageInvalid(i)
    \/ \E throws \in BOOLEAN : ReconnectTimerFires(throws)

SpecLobbySocket == Init /\ [][NextLobbySocket]_vars

\* ------------------------------------------------------------- aggregate
IsSortedByStartsAt(s) ==
    \A i \in 1 .. (Len(s) - 1) : s[i].startsAt <= s[i + 1].startsAt

Occurrences(s, x) == Cardinality({ i \in 1 .. Len(s) : s[i] = x })

SamePublicGames(s, t) ==
    /\ Len(s) = Len(t)
    /\ \A x \in Range(s) \cup Range(t) : Occurrences(s, x) = Occurrences(t, x)

RECURSIVE ConcatReports(_)
\* the most recent reports of the workers registered under the ids of ks
ConcatReports(ks) ==
    IF ks = {} THEN << >>
    ELSE LET k == CHOOSE x \in ks : TRUE
         IN reports[k].lobbies \o ConcatReports(ks \ {k})

\* C1: the games list of a broadcast is, sorted ascending by startsAt, the
\* concatenation of the most recent lobbyList of each worker registered at
\* that moment, and holds no lobby of a worker removed before
C1_AggregateIsLatestReports ==
    /\ IsSortedByStartsAt(getAllLobbies)
    /\ SamePublicGames(getAllLobbies, ConcatReports(DOMAIN workers))

\* C6: while the replacement registered under id k has not reported, the
\* aggregate holds no lobby of id k, that is none of the exited worker k
C6_NoLobbyOfExitedWorker ==
    \A k \in DOMAIN workers :
        (workers[k] > numWorkers /\ ~reports[k].has)
            => \A i \in 1 .. Len(getAllLobbies) :
                   workerIndex(getAllLobbies[i].gameID) # k

\* ------------------------------------------------------------- readiness
Running == started /\ polling.broadcast = 1 /\ polling.schedule = 1

\* C2: no loop runs, and no lobbiesBroadcast or createGame is sent, before
\* a workerReady of every configured worker has been handled; the loops are
\* started once the ready-set holds all numWorkers ids, and exactly once,
\* whatever duplicates of workerReady arrive
C2_ReadinessGating ==
    /\ ~started =>
          /\ polling.broadcast = 0 /\ polling.schedule = 0
          /\ \A h \in Handles : toWorker[h] = << >>
          /\ lastTick = NoTick
    /\ started => \A k \in WorkerIds : readySignals[k] >= 1
    /\ Cardinality(readyWorkers) = numWorkers => started
    /\ started => Running

\* the loops run and a second workerReady of some id has been handled
C2_Witness ==
    /\ Running
    /\ \E k \in WorkerIds : readySignals[k] >= 2

\* C9: once Running, the coordinator stays Running over every later event:
\* the start flag stays set, no loop is stopped and none is started again
C9_RunningIsTerminal == [][Running => Running']_vars

\* Running, after a worker that had been sent a createGame has exited, its
\* replacement has been registered and has sent its own workerReady
C9_Witness ==
    /\ Running
    /\ lastTick.cmds = 1
    /\ proc[lastTick.to].state = "reaped"
    /\ workers[proc[lastTick.to].id] # lastTick.to
    /\ readySignals[proc[lastTick.to].id] >= 2
    /\ readyWorkers = WorkerIds

\* ------------------------------------------------------------- scheduling
TickDone == lastTick.phase = "done"

\* C3 as claimed: a scheduling tick that finds fewer than 2 lobbies issues
\* exactly one createGame
C3_ExactlyOneCreateGame ==
    (TickDone /\ lastTick.inventory < LobbyThreshold) => lastTick.cmds = 1

\* C3 as amended: such a tick issues one createGame when the playlist yields
\* a configuration and a worker is registered under the index of the new
\* identifier, and none otherwise; never more than one
C3_OneCreateGameIfFetched ==
    (TickDone /\ lastTick.inventory < LobbyThreshold) =>
        lastTick.cmds = (IF lastTick.fetched /\ lastTick.to # 0 THEN 1 ELSE 0)

\* a tick found fewer than 2 lobbies, fetched a configuration and sent
C3_Witness ==
    /\ TickDone
    /\ lastTick.inventory = 1
    /\ lastTick.fetched
    /\ lastTick.cmds = 1

\* C5: a createGame whose identifier maps to index k goes to the handle
\* registered under k when it is sent, and to no handle that was registered
\* under k before
C5_CreateGameToCurrentHandle ==
    [][(sched.pc = "fetch" /\ lastTick'.phase = "done" /\ lastTick'.cmds >= 1) =>
          /\ sched.workerId \in DOMAIN workers
          /\ lastTick'.to = workers[sched.workerId]
          /\ \A h \in Handles \ {workers[sched.workerId]} :
                 toWorker'[h] = toWorker[h]]_vars

\* a createGame has been sent to a handle forked by the exit handler
C5_Witness ==
    /\ TickDone
    /\ lastTick.cmds = 1
    /\ lastTick.to > numWorkers
    /\ proc[lastTick.to].state = "running"

\* C10: a createGame for identifier g goes to one worker, the one whose
\* identity is workerIndex(g); so every game a worker holds maps to its own
\* identity
C10_OwnerDerivableFromID ==
    /\ \A h \in Handles :
          /\ \A i \in 1 .. Len(proc[h].games) :
                 workerIndex(proc[h].games[i].gameID) = proc[h].id
          /\ \A i \in 1 .. Len(toWorker[h]) :
                 toWorker[h][i].type = "createGame"
                     => workerIndex(toWorker[h][i].gameID) = proc[h].id
    /\ lastTick.cmds <= 1
    /\ lastTick.cmds = 1 => proc[lastTick.to].id = workerIndex(lastTick.gameID)

\* every worker identity holds a game created on command
C10_Witness ==
    \A k \in WorkerIds :
        \E h \in Handles : proc[h].id = k /\ proc[h].games # << >>

\* ------------------------------------------------------------- idempotence
NoDuplicateGame(h) ==
    \A i, j \in 1 .. Len(proc[h].games) :
        proc[h].games[i].gameID = proc[h].games[j].gameID => i = j

\* a worker takes a createGame from its channel
Creates(h) ==
    /\ toWorker[h] # << >>
    /\ Head(toWorker[h]).type = "createGame"
    /\ toWorker'[h] = Tail(toWorker[h])
    /\ proc'[h].state = "running"

\* C4: however often a createGame for one identifier is delivered, the worker
\* holds one game of that identifier; a createGame for an identifier it
\* holds creates nothing and changes no game
C4_CreateGameIdempotent ==
    /\ [](\A h \in Handles : NoDuplicateGame(h))
    /\ [][\A h \in Handles :
             (Creates(h) /\ GameExists(h, Head(toWorker[h]).gameID))
                 => proc'[h].games = proc[h].games]_vars

\* the last createGame, for an identifier the worker held, has been handled:
\* the game the worker holds still has the start time of the first command
C4_Witness ==
    /\ TickDone
    /\ lastTick.cmds = 1
    /\ Quiet
    /\ proc[lastTick.to].state = "running"
    /\ \E i \in 1 .. Len(proc[lastTick.to].games) :
          /\ proc[lastTick.to].games[i].gameID = lastTick.gameID
          /\ proc[lastTick.to].games[i].startsAt # lastTick.startsAt

\* ------------------------------------------------------------- invalid payloads
\* C7: an invalid payload at the master's listener changes neither the
\* registration map, the lobby map, the ready-set nor the start flag, starts
\* no loop and sends nothing
C7_MasterIgnoresInvalid ==
    [][invalidSeen'.master # invalidSeen.master =>
          UNCHANGED << workers, listeners, workerLobbies, readyWorkers,
                       started, polling, sched, toWorker, toMaster >>]_vars

\* an invalid payload has been handled by a coordinator that holds lobbies
\* and waits for a worker to become ready again
C7_Witness ==
    /\ invalidSeen.master >= 1
    /\ workerLobbies # << >>
    /\ readyWorkers # {}
    /\ readyWorkers # WorkerIds

\* C8: an invalid payload at a worker's listener creates no game, forwards
\* nothing to a viewer, sends no lobbyList and leaves lobbyClients as it is
C8_WorkerIgnoresInvalid ==
    [][invalidSeen'.worker # invalidSeen.worker =>
          UNCHANGED << proc, lobbyClients, socket, toMaster, toWorker >>]_vars

\* an invalid payload has been handled by a worker with an open viewer, a
\* viewer that is down but still in lobbyClients, and a game
C8_Witness ==
    /\ invalidSeen.worker >= 1
    /\ proc[1].games # << >>
    /\ \E c \in lobbyClients[1] : socket[c].readyState = "OPEN"
    /\ \E c \in lobbyClients[1] : socket[c].readyState = "CLOSED"

\* ------------------------------------------------------------- start times
\* a scheduling tick starts: the clock moves only then
TickStarts == now' # now

\* a scheduling tick ends: the playlist has answered
TickEnds == sched.pc = "fetch" /\ sched'.pc = "idle"

\* C11: the startsAt of a createGame is the greatest of the startsAt in the
\* aggregate at the start of the tick and the time at the start of the tick,
\* plus gameCreationRate, whatever is reported while the playlist is fetched
C11_StartsAtIsMaxPlusRate ==
    [][/\ (TickStarts /\ sched'.pc = "fetch") =>
             /\ sched'.lastStart >= now'
             /\ \A i \in 1 .. Len(getAllLobbies) :
                    sched'.lastStart >= getAllLobbies[i].startsAt
             /\ \/ sched'.lastStart = now'
                \/ \E i \in 1 .. Len(getAllLobbies) :
                       sched'.lastStart = getAllLobbies[i].startsAt
       /\ \A h \in Handles :
             (TickEnds /\ toWorker'[h] # toWorker[h]) =>
                 /\ toWorker'[h][Len(toWorker'[h])].type = "createGame"
                 /\ toWorker'[h][Len(toWorker'[h])].startsAt
                        = sched.lastStart + GameCreationRate]_vars

\* a createGame has been sent whose startsAt comes from a lobby of the
\* aggregate that starts later than the clock shows
C11_Witness ==
    /\ TickDone
    /\ lastTick.cmds = 1
    /\ lastTick.inventory = 1
    /\ lastTick.startsAt > now + GameCreationRate

\* C12: a tick that finds 2 or more lobbies sends nothing, does not go to
\* the playlist and changes nothing the coordinator holds
C12_FullInventorySchedulesNothing ==
    [][(TickStarts /\ Len(getAllLobbies) >= LobbyThreshold) =>
          /\ sched' = sched
          /\ sched'.pc = "idle"
          /\ UNCHANGED << workers, listeners, workerLobbies, readyWorkers,
                          started, polling, toWorker, toMaster >>]_vars

\* a tick has found 2 lobbies and has ended without a fetch and a command
C12_Witness ==
    /\ TickDone
    /\ lastTick.inventory >= LobbyThreshold
    /\ ~lastTick.fetched
    /\ lastTick.cmds = 0
    /\ sched = IdleSched

\* ------------------------------------------------------------- fan-out
\* a broadcast tick runs
BroadcastTicks == casts' # casts

\* C13: a broadcast tick puts one lobbiesBroadcast, carrying the aggregate
\* and the time of that tick, into the channel of every handle in the
\* registration map whose process lives, ready or not, whatever the
\* aggregate holds; it sends nothing to any other handle
C13_BroadcastToEveryRegistered ==
    [][BroadcastTicks =>
          \A h \in Handles :
              IF (\E k \in DOMAIN workers : workers[k] = h) /\ proc[h].state = "running"
              THEN /\ Len(toWorker'[h]) = Len(toWorker[h]) + 1
                   /\ SubSeq(toWorker'[h], 1, Len(toWorker[h])) = toWorker[h]
                   /\ toWorker'[h][Len(toWorker'[h])].type = "lobbiesBroadcast"
                   /\ toWorker'[h][Len(toWorker'[h])].publicGames.games = getAllLobbies
                   /\ toWorker'[h][Len(toWorker'[h])].publicGames.serverTime = now
              ELSE toWorker'[h] = toWorker[h]]_vars

\* a broadcast of an empty aggregate waits in the channel of a replacement
\* that is registered and has not been ready yet
C13_Witness ==
    \E h \in Handles :
        /\ h > numWorkers
        /\ proc[h].id \in DOMAIN workers
        /\ workers[proc[h].id] = h
        /\ proc[h].id \notin readyWorkers
        /\ toWorker[h] # << >>
        /\ Head(toWorker[h]).type = "lobbiesBroadcast"
        /\ Head(toWorker[h]).publicGames.games = << >>

\* ------------------------------------------------------------- relay
\* the worker behind h takes a lobbiesBroadcast from its channel
BroadcastHandled(h) ==
    /\ toWorker[h] # << >>
    /\ Head(toWorker[h]).type = "lobbiesBroadcast"
    /\ toWorker'[h] = Tail(toWorker[h])
    /\ proc[h].state = "running"
    /\ proc'[h].state = "running"

\* C14: a worker that handles a lobbiesBroadcast sends the view it received,
\* as it is, to every socket of lobbyClients that is OPEN, and sends nothing
\* to a socket that is not OPEN or not attached
C14_ForwardsViewToOpenViewers ==
    [][\A h \in Handles :
          BroadcastHandled(h) =>
              \A c \in Conns :
                  /\ socket'[c].readyState = socket[c].readyState
                  /\ socket'[c].received =
                         IF c \in lobbyClients[h] /\ socket[c].readyState = "OPEN"
                         THEN Head(toWorker[h]).publicGames
                         ELSE socket[c].received]_vars

\* an open viewer holds a view of two games while a viewer that went down
\* before that broadcast holds another view
C14_Witness ==
    \E c, d \in Conns :
        /\ c \in lobbyClients[1]
        /\ socket[c].readyState = "OPEN"
        /\ Len(socket[c].received.games) = 2
        /\ socket[d].owner = 1
        /\ socket[d].readyState = "CLOSED"
        /\ Len(socket[d].received.games) = 1

\* the lobbies of a lobbyList are the public lobbies of the worker, each once
CompleteLobbyList(h, lobbies) ==
    /\ Len(lobbies)
          = Cardinality({ i \in 1 .. Len(proc[h].games) : proc[h].games[i].public })
    /\ \A i \in 1 .. Len(proc[h].games) :
          proc[h].games[i].public <=>
              \E j \in 1 .. Len(lobbies) :
                  /\ lobbies[j].gameID = proc[h].games[i].gameID
                  /\ lobbies[j].startsAt = proc[h].games[i].startsAt

\* the worker behind h puts a lobbyList into its channel to the master
SendsLobbyList(h) ==
    /\ Len(toMaster'[h]) = Len(toMaster[h]) + 1
    /\ toMaster'[h][Len(toMaster'[h])].type = "lobbyList"

\* C15: a worker that handles a lobbiesBroadcast sends one lobbyList in that
\* step, holding all of its public lobbies and nothing else; no other step
\* sends a lobbyList
C15_OneFullLobbyListPerBroadcast ==
    [][\A h \in Handles :
          /\ BroadcastHandled(h) =>
                /\ SendsLobbyList(h)
                /\ SubSeq(toMaster'[h], 1, Len(toMaster[h])) = toMaster[h]
                /\ CompleteLobbyList(h, toMaster'[h][Len(toMaster'[h])].lobbies)
          /\ SendsLobbyList(h) => BroadcastHandled(h)]_vars

\* a worker whose lobby has started has reported an empty list, and the
\* master holds no lobby of it any more
C15_Witness ==
    /\ proc[1].games # << >>
    /\ \A i \in 1 .. Len(proc[1].games) : ~proc[1].games[i].public
    /\ reports[0].has
    /\ reports[0].lobbies = << >>
    /\ workerLobbies = << [id |-> 0, lobbies |-> << >>] >>

\* C16: handling a broadcast leaves in lobbyClients the sockets that were
\* OPEN at that broadcast and no other; a socket is in the set from its
\* connection on, and is out of it once its close or error event has been
\* handled
C16_NoDeadViewerAccumulates ==
    /\ [][\A h \in Handles :
             BroadcastHandled(h) =>
                 lobbyClients'[h]
                    = { c \in lobbyClients[h] : socket[c].readyState = "OPEN" }]_vars
    /\ [](\A c \in Conns :
             /\ socket[c].readyState = "OPEN" => c \in lobbyClients[socket[c].owner]
             /\ socket[c].readyState \in {"NONE", "CLOSING"} =>
                    \A h \in Handles : c \notin lobbyClients[h]
             /\ \A h \in Handles : c \in lobbyClients[h] => socket[c].owner = h)

\* a viewer that went down after it had received a view is out of the set
\* while its close event is still to come, and the other viewer has received
\* a later view
C16_Witness ==
    \E c, d \in Conns :
        /\ lobbyClients[1] = {c}
        /\ socket[c].readyState = "OPEN"
        /\ Len(socket[c].received.games) = 2
        /\ socket[d].owner = 1
        /\ socket[d].readyState = "CLOSED"
        /\ Len(socket[d].received.games) = 1
        /\ invalidSeen.worker = 0

\* ------------------------------------------------------------- supervision
\* C17: every exit is answered in its handler by the deregistration of the
\* worker and the registration of a replacement of the same identity; so
\* between handlers the registration map holds exactly the ids
\* 0 .. numWorkers-1, each with the handle of a process of that identity
\* that has not exited
C17_ExitReplacesWorker ==
    booted =>
        /\ DOMAIN workers = WorkerIds
        /\ \A k \in WorkerIds :
              /\ proc[workers[k]].id = k
              /\ proc[workers[k]].state = "running"

\* C18: every id of the ready-set is a key of the registration map and lies
\* in 0 .. numWorkers-1
C18_ReadyImpliesRegistered ==
    /\ readyWorkers \subseteq DOMAIN workers
    /\ readyWorkers \subseteq WorkerIds

\* the replacement of a worker that had been ready is registered and is not
\* in the ready-set, while the other worker is
C18_Witness ==
    \E k \in DOMAIN workers :
        /\ workers[k] > numWorkers
        /\ readySignals[k] >= 1
        /\ k \notin readyWorkers
        /\ readyWorkers # {}

\* ------------------------------------------------------------- failures
\* C19: a tick whose playlist fetch fails sends nothing and changes nothing
\* the coordinator holds; the loop goes on, so the next tick may start and
\* looks at the inventory again
C19_FailedFetchAbortsTick ==
    [][(TickEnds /\ ~lastTick'.fetched) =>
          /\ UNCHANGED << workers, listeners, workerLobbies, readyWorkers,
                          started, polling, toWorker, toMaster >>
          /\ lastTick'.cmds = 0
          /\ sched' = IdleSched
          /\ polling'.schedule = 1]_vars

\* a tick has sent a createGame and the only games the workers hold come
\* from that tick: every tick before it has failed at the playlist
C19_Witness ==
    /\ TickDone
    /\ lastTick.cmds = 1
    /\ now >= 2
    /\ Quiet
    /\ \E h \in Handles : proc[h].games # << >>
    /\ \A h \in Handles : \A i \in 1 .. Len(proc[h].games) :
          /\ proc[h].games[i].gameID = lastTick.gameID
          /\ proc[h].games[i].startsAt = lastTick.startsAt

\* C20: a tick whose worker index has no entry in the registration map sends
\* the createGame to nobody and keeps nothing of it; a handle registered
\* later is sent nothing on its registration
C20_MissingWorkerDropsCommand ==
    [][/\ (TickEnds /\ sched.workerId \notin DOMAIN workers) =>
             /\ UNCHANGED toWorker
             /\ lastTick'.cmds = 0
             /\ sched' = IdleSched
       /\ (DOMAIN workers' # DOMAIN workers /\ DOMAIN workers \subseteq DOMAIN workers') =>
             UNCHANGED << toWorker, sched >>]_vars

\* a tick has fetched a configuration and dropped its command; the missing
\* id has a handle again, which has been sent and holds nothing
C20_Witness ==
    /\ TickDone
    /\ lastTick.inventory < LobbyThreshold
    /\ lastTick.fetched
    /\ lastTick.cmds = 0
    /\ DOMAIN workers = WorkerIds
    /\ \E k \in WorkerIds :
          /\ workers[k] > numWorkers
          /\ toWorker[workers[k]] = << >>
          /\ proc[workers[k]].games = << >>

\* ------------------------------------------------------------- polling loops
\* C21: a scheduling tick starts only when no invocation of maybeScheduleLobby
\* is in flight: the invocation before it has returned, or has failed at the
\* playlist, and nothing of it is left suspended
C21_TicksDoNotOverlap ==
    [][TickStarts => /\ sched = IdleSched
                     /\ lastTick.phase \in {"none", "done"}]_vars

\* a tick is suspended at the playlist after the tick before it had failed
\* there
C21_Witness ==
    /\ sched.pc = "fetch"
    /\ now >= 2
    /\ \A h \in Handles : proc[h].games = << >> /\ toWorker[h] = << >>

\* the last scheduling tick has failed at the playlist
TickFailed == TickDone /\ ~lastTick.fetched /\ lastTick.inventory < LobbyThreshold

\* C22: a failure of the work of a scheduling tick does not end the loop:
\* whenever a tick has failed at the playlist, a later tick of the loop runs
C22_FailedTickIsFollowed == TickFailed ~> ~TickFailed

\* the worker holds one game, made by the last tick at the second reading
\* of the clock: every tick before it has failed
C22_Witness ==
    /\ TickDone
    /\ lastTick.cmds = 1
    /\ now = 2
    /\ lastTick.startsAt = 2 + GameCreationRate
    /\ \E h \in Handles :
          proc[h].games = << [gameID |-> lastTick.gameID,
                              startsAt |-> lastTick.startsAt, public |-> TRUE] >>

\* C23: the broadcast loop does not wait for the scheduling loop: while a
\* scheduling tick is suspended at the playlist, for however long, the next
\* broadcast tick can run as soon as the workers have taken what the master
\* sent them before
C23_BroadcastRunsDuringFetch ==
    (sched.pc = "fetch" /\ Quiet) => ENABLED BroadcastTick

\* a scheduling tick is suspended at the playlist and a lobbiesBroadcast sent
\* after it was suspended is on its way to a worker
C23_Witness ==
    /\ sched.pc = "fetch"
    /\ \E h \in Handles :
          /\ toWorker[h] # << >>
          /\ Head(toWorker[h]).type = "lobbiesBroadcast"

\* ------------------------------------------------------------- delivery order
RECURSIVE ReportsFrom(_)
\* the most recent lobbyList of the workers k, k + 1, ..., one after the other
ReportsFrom(k) ==
    IF k >= numWorkers THEN << >>
    ELSE reports[k].lobbies \o ReportsFrom(k + 1)

\* two games of the aggregate that come from different workers start at the
\* same time
TiedAcrossWorkers ==
    \E i, j \in 1 .. Len(getAllLobbies) :
        /\ i < j
        /\ getAllLobbies[i].startsAt = getAllLobbies[j].startsAt
        /\ workerIndex(getAllLobbies[i].gameID) # workerIndex(getAllLobbies[j].gameID)

EntryOf(entries, k) ==
    Flat(SelectIdx(entries, [i \in 1 .. Len(entries) |-> entries[i].id = k]))

\* the master takes a lobbyList from the channel of handle h
LobbyListHandled(h) ==
    /\ toMaster[h] # << >>
    /\ Head(toMaster[h]).type = "lobbyList"
    /\ toMaster'[h] = Tail(toMaster[h])

\* the handles in the registration map whose process has exited
DeadRegistered == { h \in Registered : proc[h].state # "running" }

\* C25: a lobbiesBroadcast that cannot be sent is dropped, not kept and not
\* sent again outside a tick; the same tick still sends the full aggregate to
\* every other registered worker and the loop goes on; and a lobbyList that
\* arrives replaces the whole entry of its worker, so one delivered tick is
\* enough to bring both sides up to date
C25_FailedSendIsNotRetried ==
    [][/\ BroadcastTicks =>
             /\ \A d \in DeadRegistered : toWorker'[d] = << >>
             /\ \A h \in Registered \ DeadRegistered :
                   /\ Len(toWorker'[h]) = Len(toWorker[h]) + 1
                   /\ toWorker'[h][Len(toWorker'[h])]
                         = MasterLobbiesBroadcast([serverTime |-> now,
                                                   games |-> getAllLobbies])
             /\ polling' = polling
       /\ \A h \in Handles :
             /\ (/\ Len(toWorker'[h]) > Len(toWorker[h])
                 /\ toWorker'[h][Len(toWorker'[h])].type = "lobbiesBroadcast")
                   => BroadcastTicks
             /\ LobbyListHandled(h) =>
                   EntryOf(workerLobbies', listeners[h]) = Head(toMaster[h]).lobbies]_vars

\* a broadcast could not be sent to one worker; the other worker has answered
\* a broadcast and the next one, sent by a tick that failed for the first, is
\* on its way to it
C25_Witness ==
    \E k \in DOMAIN workers, h \in Registered :
        /\ failedSends[k] >= 1
        /\ proc[h].state = "running"
        /\ reports[proc[h].id].has
        /\ toWorker[h] # << >>
        /\ Head(toWorker[h]).type = "lobbiesBroadcast"

\* C26: a registered worker without a recent report adds no games to the
\* aggregate: neither one that has not reported since it was registered, nor
\* one that has answered none of the last MaxFailedSends broadcasts and has
\* no report on its way
C26_SilentWorkerContributesNothing ==
    \A k \in DOMAIN workers :
        (\/ ~reports[k].has
         \/ failedSends[k] >= MaxFailedSends /\ toMaster[workers[k]] = << >>)
            => EntryOf(workerLobbies, k) = << >>

\* ------------------------------------------------------------- ownership
\* no identifier occurs twice in the list of lobbies s
DistinctGameIDs(s) ==
    \A i, j \in 1 .. Len(s) : i # j => s[i].gameID # s[j].gameID

\* C27: a lobby has one owner: no two running workers hold a game of the same
\* identifier, no identifier occurs in the reported lists of two workers or
\* twice in one, so none occurs twice in the aggregate; and the aggregate
\* holds the reported summaries as they were reported, each once
C27_OneOwnerPerLobby ==
    /\ \A h, g \in Handles :
          (h # g /\ proc[h].state = "running" /\ proc[g].state = "running")
              => \A i \in 1 .. Len(proc[h].games) :
                     ~GameExists(g, proc[h].games[i].gameID)
    /\ DistinctGameIDs(Flat(workerLobbies))
    /\ DistinctGameIDs(getAllLobbies)
    /\ SamePublicGames(getAllLobbies, Flat(workerLobbies))

\* the aggregate holds two lobbies, reported by two workers
C27_Witness ==
    /\ Len(getAllLobbies) = 2
    /\ Len(workerLobbies) = 2
    /\ workerLobbies[1].lobbies # << >>
    /\ workerLobbies[2].lobbies # << >>

\* ------------------------------------------------------------- scenario
\* the tick that ends sends one createGame, for the identifier it drew and
\* for now + gameCreationRate, to the worker the identifier is assigned to,
\* and nothing to anybody else
OneCreateGameToOwner ==
    LET owner == workers[workerIndex(sched.gameID)]
    IN /\ toWorker'[owner]
             = Append(toWorker[owner],
                      MasterCreateGame(sched.gameID, now + GameCreationRate))
       /\ \A h \in Handles \ {owner} : toWorker'[h] = toWorker[h]

\* how often identifier g occurs in the list of lobbies s
GamesWithID(s, g) == Cardinality({ i \in 1 .. Len(s) : s[i].gameID = g })

\* the games all workers hold
GamesHeld == { << h, i >> \in Handles \X (1 .. MaxTime) : i <= Len(proc[h].games) }

\* the rest of the scenario: no tick before all three workers have been
\* ready; a broadcast after a worker has reported an identifier carries one
\* game of that identifier; and two games in the aggregate mean that a second
\* tick has run and two lobbies exist
ScenarioGoesOn ==
    /\ (polling'.schedule >= 1 \/ polling'.broadcast >= 1) =>
          \A k \in 0 .. (ScenarioWorkers - 1) : readySignals'[k] >= 1
    /\ BroadcastTicks =>
          \A k \in DOMAIN workers : \A i \in 1 .. Len(reports[k].lobbies) :
              \A h \in Registered :
                  GamesWithID(toWorker'[h][Len(toWorker'[h])].publicGames.games,
                              reports[k].lobbies[i].gameID) = 1
    /\ Len(getAllLobbies') >= 2 =>
          /\ now' >= 2
          /\ Cardinality(GamesHeld') >= 2

\* C28 as claimed: in the scenario the first scheduling tick sends exactly one
\* createGame, to the owner of the identifier, and the scenario goes on as
\* described
C28_FirstTickSendsOneCreateGame ==
    [][/\ (TickEnds /\ now = 1) => OneCreateGameToOwner
       /\ ScenarioGoesOn]_vars

\* C28: in the scenario the first scheduling tick sends exactly one
\* createGame, to the owner of the identifier, if the playlist yields a
\* configuration, and nothing if it fails; the scenario goes on as described
C28_FirstTickSendsOneIfFetched ==
    [][/\ (TickEnds /\ now = 1) =>
             IF lastTick'.fetched THEN OneCreateGameToOwner ELSE UNCHANGED toWorker
       /\ ScenarioGoesOn]_vars

\* the end of the scenario: three workers, two lobbies in the aggregate
C28_Witness ==
    /\ numWorkers = ScenarioWorkers
    /\ Len(getAllLobbies) = 2
    /\ Quiet

\* ------------------------------------------------------------- progress
\* C29: once the loops run, and with ticks that keep firing, payloads that
\* are delivered, a playlist that does not fail for ever, lobbies that are
\* not removed and workers that stop exiting, the aggregate comes to hold at
\* least 2 lobbies
C29_InventoryIsReached ==
    Running ~> (Len(getAllLobbies) >= LobbyThreshold)

\* C30: with workers that send their workerReady and stop exiting, the
\* coordinator comes to start both loops, also when workers exit while others
\* are still becoming ready
C30_EventuallyRunning == <>Running

\* the loops run, and a worker had exited while the pool was becoming ready
C30_Witness ==
    /\ Running
    /\ \E h \in Handles : proc[h].state = "reaped"

\* ------------------------------------------------------------- restarts
\* the master has handled the workerReady that the process behind h sent
ReadyHandled(h) ==
    /\ proc[h].readySent
    /\ \A i \in 1 .. Len(toMaster[h]) : toMaster[h][i].type # "workerReady"

\* the handles forked by the "exit" handler
Replacements == { h \in Registered : h > numWorkers }

\* C31: while the handle registered under k is a replacement, k is not in the
\* ready-set before the master has handled the replacement's own workerReady
\* and has no lobby list before it has handled a lobbyList of the replacement
C31_RestartedRegistrationIsFresh ==
    \A k \in DOMAIN workers :
        workers[k] \in Replacements =>
            /\ ~ReadyHandled(workers[k]) => k \notin readyWorkers
            /\ ~reports[k].has => ~MapHas(workerLobbies, k)

\* ------------------------------------------------------------- privileges
\* C32: get() never returns null; it returns the fail-open checker as long
\* as no load has succeeded, and after that the checker of the most recent
\* successful load; a load that fails leaves the installed checker as it is
C32_FailsOpenAndKeepsLastLoaded ==
    [][/\ refresher'.gets # refresher.gets =>
             /\ refresher'.got.kind # "null"
             /\ IF refresher.loads = 0
                THEN refresher'.got = FailOpenPrivilegeChecker
                ELSE /\ refresher'.got.kind = "impl"
                     /\ refresher'.got.load = refresher.loads
       /\ (refresher.pc = "loading" /\ refresher'.pc = "idle"
              /\ refresher'.loads = refresher.loads) =>
             refresher'.privilegeChecker = refresher.privilegeChecker]_vars

\* get() has returned the checker of the first load after a later refresh
\* had failed
C32_Witness ==
    /\ refresher.loads = 1
    /\ refresher.attempts >= 2
    /\ refresher.pc = "idle"
    /\ refresher.gets >= 1
    /\ refresher.got = PrivilegeCheckerImpl(1, "empty")

\* ------------------------------------------------------------- usernames
\* the clan tag of the username that was censored, << >> when it has none
TagOf == getClanTagOriginalCase(censor.username)

\* the username that was censored without its clan tag
NameOf ==
    IF TagOf = << >> THEN censor.username
    ELSE trim(RemoveFirst(censor.username, << "[" >> \o TagOf \o << "]" >>))

\* C33: a username whose clan tag, if it has one, and whose name are not
\* profane is returned as it was given
C33_CleanUsernameUnchanged ==
    (/\ censor.done
     /\ TagOf # << >> => ~hasMatch(TagOf, BannedWords)
     /\ ~hasMatch(NameOf, BannedWords))
        => censor.result = censor.username

\* what the result holds behind the clan tag, if it starts with the tag in
\* upper case, and the result otherwise
BehindTag ==
    LET prefix == << "[" >> \o toUpperCase(TagOf) \o << "]", " " >>
    IN IF /\ Len(censor.result) >= Len(prefix)
          /\ SubSeq(censor.result, 1, Len(prefix)) = prefix
       THEN SubSeq(censor.result, Len(prefix) + 1, Len(censor.result))
       ELSE censor.result

\* C34: for a username with a clan tag, the result has no tag exactly when
\* the tag is profane and starts with the tag in upper case otherwise; the
\* name behind it is a shadow name, fixed by the name, exactly when the name
\* is profane, and the name itself otherwise
C34_TagAndNameCensoredApart ==
    (censor.done /\ TagOf # << >>) =>
        LET prefix == << "[" >> \o toUpperCase(TagOf) \o << "]", " " >>
            name == IF hasMatch(TagOf, BannedWords) THEN censor.result ELSE BehindTag
        IN /\ hasMatch(TagOf, BannedWords) <=>
                 ~(/\ Len(censor.result) >= Len(prefix)
                   /\ SubSeq(censor.result, 1, Len(prefix)) = prefix)
           /\ IF hasMatch(NameOf, BannedWords)
              THEN /\ Len(name) = 1
                   /\ \E i \in 1 .. Len(shadowNames) : name[1] = shadowNames[i]
                   /\ name[1] = shadowNames[HashMod(simpleHash(NameOf), Len(shadowNames)) + 1]
              ELSE name = NameOf

\* a clean tag typed in lower case in front of a profane name: the tag is
\* kept in upper case and the name is a shadow name
C34_Witness ==
    /\ censor.done
    /\ censor.username = << "[", "a", "b", "]", "b", "a" >>
    /\ Len(censor.result) = 6
    /\ SubSeq(censor.result, 1, 5) = << "[", "A", "B", "]", " " >>

\* ------------------------------------------------------------- inventory
\* the createGame commands that are on their way to a worker
CreatesInFlight ==
    { << h, i >> \in Handles \X (1 .. MaxQueue) :
        /\ i <= Len(toWorker[h])
        /\ toWorker[h][i].type = "createGame"
        /\ ~GameExists(h, toWorker[h][i].gameID) }

\* the lobbies a worker has created on a createGame and that the aggregate
\* does not hold yet
CreatedUnreported ==
    { << h, i >> \in Handles \X (1 .. (MaxGameIDs + 1)) :
        /\ proc[h].state = "running"
        /\ i <= Len(proc[h].games)
        /\ proc[h].games[i].public
        /\ \A j \in 1 .. Len(getAllLobbies) :
              getAllLobbies[j].gameID # proc[h].games[i].gameID }

\* C35: the lobbies of the aggregate and the createGame commands sent and
\* not yet seen in a lobbyList are never more than 2 together
C35_NeverOverProvisions ==
    Len(getAllLobbies) + Cardinality(CreatesInFlight) + Cardinality(CreatedUnreported)
        <= LobbyThreshold

\* ------------------------------------------------------------- late payloads
\* C36: a payload handled on a handle that is no longer registered changes
\* neither the lobby lists nor the ready-set nor the loops
C36_LateMessagesChangeNothing ==
    [][\A h \in DOMAIN listeners :
          (h \notin Registered /\ toMaster'[h] # toMaster[h]) =>
              UNCHANGED << workerLobbies, readyWorkers, started, polling >>]_vars

\* ------------------------------------------------------------- handle of a tick
\* the worker of the tick in flight was given a new handle while the tick
\* waited for the playlist
ReRegisteredDuringFetch ==
    /\ sched.pc = "fetch"
    /\ lastTick.registered # 0
    /\ sched.workerId \in DOMAIN workers
    /\ workers[sched.workerId] # lastTick.registered

\* C37: a tick whose worker exited and was registered again while the tick
\* waited for the playlist sends its createGame to the handle registered when
\* the playlist answers and nothing to the handle of the exited process
C37_HandleResolvedAfterFetch ==
    [][(ReRegisteredDuringFetch /\ TickEnds /\ lastTick'.fetched) =>
          /\ lastTick'.to = workers[sched.workerId]
          /\ proc[workers[sched.workerId]].state = "running" =>
                 toWorker'[workers[sched.workerId]] =
                     Append(toWorker[workers[sched.workerId]],
                            MasterCreateGame(sched.gameID, sched.lastStart + GameCreationRate))
          /\ toWorker'[lastTick.registered] = toWorker[lastTick.registered]]_vars

\* a tick has sent its createGame to a handle forked while it waited; the
\* process it would have gone to at the start of the tick has exited
C37_Witness ==
    /\ TickDone
    /\ lastTick.cmds = 1
    /\ lastTick.registered # 0
    /\ lastTick.to # lastTick.registered
    /\ proc[lastTick.to].state = "running"
    /\ proc[lastTick.registered].state = "reaped"

\* ------------------------------------------------------------- order of starts
\* C38: the startsAt of a createGame is greater than the startsAt of every
\* createGame sent before it, be it still on its way or a lobby by now
C38_StartsAtStrictlyIncreasing ==
    [][(TickEnds /\ lastTick'.cmds >= 1) =>
          \A h \in Handles :
              /\ \A i \in 1 .. Len(proc[h].games) :
                     proc[h].games[i].startsAt < lastTick'.startsAt
              /\ \A i \in 1 .. Len(toWorker[h]) :
                     toWorker[h][i].type = "createGame" =>
                         toWorker[h][i].startsAt < lastTick'.startsAt]_vars

\* ------------------------------------------------------------- lobby socket
\* the connections that are being opened or are open
LiveSockets ==
    { i \in 1 .. MaxSockets : lobbySocket.sockets[i].readyState \in {"CONNECTING", "OPEN"} }

\* C39: from the return of stop() to the next call of start() the socket
\* has no connection that is connecting or open and no reconnect timer
C39_StoppedStaysStopped ==
    lobbySocket.stopped =>
        /\ LiveSockets = {}
        /\ lobbySocket.timers = {}

\* a connection is counted at most once, the counter is not above
\* maxWsAttempts, at most one reconnect timer is pending, and after
\* maxWsAttempts connections in a row that closed without having been open
\* no reconnect is pending
AttemptsBounded ==
    /\ \A i \in 1 .. MaxSockets : lobbySocket.sockets[i].counted <= 1
    /\ lobbySocket.wsConnectionAttempts <= maxWsAttempts
    /\ Cardinality(lobbySocket.timers) <= 1
    /\ lobbySocket.unopened >= maxWsAttempts => lobbySocket.timers = {}

\* C40: the reconnects are bounded: every step leaves the counter at 0 if
\* it is the open of a connection, and leaves each connection counted at
\* most once, the counter at maxWsAttempts or below, at most one reconnect
\* timer pending, and none pending once maxWsAttempts connections in a row
\* have closed without having been open
C40_ReconnectsAreBounded ==
    [][/\ (\E i \in 1 .. MaxSockets : SocketOpen(i)) =>
              lobbySocket'.wsConnectionAttempts = 0
       /\ AttemptsBounded']_vars

====
